---- MODULE Spec2Model ----
(***************************************************************************)
(* Model of hrequests' thread-isolated browser engine bridge:              *)
(*   BrowserEngine        (src/hrequests/browser/engine.py)                *)
(*   BrowserObjectWrapper (src/hrequests/browser/engine.py)                *)
(*   AbstractBrowserClient / BrowserSession                                *)
(*                        (src/hrequests/browser/engine.py, browser.py)    *)
(* Caller threads are 1..NumThreads; the engine's worker thread is Worker. *)
(* A caller's position is pc[t]; calls nest through stack[t].              *)
(***************************************************************************)
EXTENDS Integers, Sequences, FiniteSets, TLC

\* ---------------------------------------------------------------- bounds
NumThreads == 2
\* Top-level calls one thread makes.
MaxCalls == 2
NumSessions == 2
\* Top-level calls made on sessions, by all threads together.
MaxSessionCalls == 2
\* Engines that wrappers can be bound to, and how deep handles nest.
NumEngines == 2
MaxDepth == 2
\* Requests in one call of hrequests.map, and the largest batch size given.
MaxReqs == 3
MaxSize == 4
\* TLSRequest objects, and the send() calls made on one of them.
NumRequests == 2
MaxSends == 2

\* Submissions one call of BrowserSession.close() can make: cookies, content and
\* main_browser.close; no other modelled call makes more.
CloseSubs == 3

Threads == 1..NumThreads
Sessions == 1..NumSessions
Worker == 0
None == "None"
\* No thread: the value of a free lock.
NoThread == 0 - 1
NoSub == <<0, 0>>
\* A submission is one call of run_coroutine_threadsafe: the n-th of thread t.
Subs == Threads \X (1..(MaxCalls * CloseSubs))

\* What the submitted coroutine does on the worker: return a value, raise, or
\* suspend on a backend event (which may never arrive) and then return a value.
OpKinds == {"value", "raise", "slow"}

VARIABLES
    pc,               \* [Threads -> label]: position of each caller thread
    stack,            \* [Threads -> Seq(label)]: return labels of the calls in progress
    res,              \* [Threads -> outcome]: what the last finished call returned or raised
    calls,            \* [Threads -> Nat]: top-level calls started by the thread
    nsub,             \* [Threads -> Nat]: submissions made by the thread
    cursub,           \* [Threads -> Subs \cup {NoSub}]: the submission of the execute in progress
    opk,              \* [Subs -> OpKinds \cup {None}]: the coroutine of each submission
    start_event,      \* BrowserEngine.start_event (threading.Event)
    wpc,              \* position of __thread_worker
    wcur,             \* the task whose step the worker is executing, or NoSub
    ready,            \* the event loop's FIFO of scheduled callbacks
    task,             \* [Subs -> state of the asyncio Task wrapping the coroutine]
    fut,              \* [Subs -> state of the concurrent.futures.Future handed to the caller]
    running_futures,  \* BrowserEngine.running_futures
    lock,             \* holder of running_futures_lock, or NoThread
    joins,            \* number of completed Thread.join() calls on the worker thread
    playwright,       \* "none" | "started" | "stopped": the backend connection
    inBackend,        \* threads currently executing code of the backend handle graph
    touched,          \* caller threads that have accessed a backend handle directly
    member,           \* [Threads -> kind of the member accessed through a BrowserObjectWrapper]
    call,             \* [Threads -> name of the thread's current (or last) top-level call]
    cur,              \* [Threads -> the BrowserSession the thread's call is made on]
    temp_engine,      \* [Sessions -> BrowserSession.temp_engine]
    closed,           \* [Sessions -> BrowserSession._closed]
    resp,             \* [Sessions -> whether BrowserSession.resp is not None]
    started,          \* [Sessions -> what start() has set: "none", "client" (only self.client) or "full"]
    main_browser,     \* [Sessions -> whether client.main_browser is set]
    closes,           \* [Sessions -> number of main_browser.close calls handed to execute]
    stoppedBy,        \* sessions whose shutdown() has called engine.stop()
    held,             \* [Threads -> the BrowserObjectWrapper whose member the thread accesses]
    got,              \* [Threads -> what the thread's last access of a member of held[t] produced]
    requests,         \* reqs.map: the requests, each with its raise_exception flag
    size,             \* reqs.map: the batch size, or SizeNone
    inc,              \* reqs.map: start of the current batch (0-based, as in the source)
    all_resps,        \* reqs.map: the responses collected so far
    map_pc,           \* reqs.map: "idle" | "call" | "loop" | "returned" | "raised"
    epoch,            \* [Threads -> when the engine call in progress was made, relative to stop()]
    lazy,             \* [Requests -> whether the request is a LazyTLSRequest]
    ctor,             \* [Requests -> position of the constructor: "new" | "started" | "built"]
    session,          \* [Requests -> TLSRequest.session: None, Given or Own(n)]
    rq_close,         \* [Requests -> TLSRequest._close]
    raise_exception,  \* [Requests -> TLSRequest.raise_exception]
    response,         \* [Requests -> TLSRequest.response: None or "Response"]
    complete,         \* [Requests -> LazyTLSRequest.complete: "unset" | "False" | "True"]
    send_pc,          \* [Requests -> position of send(): "idle" | "request" | "returned" | "raised" | "done"]
    sends,            \* [Requests -> number of send() calls begun]
    built,            \* [Requests -> number of sessions the request has created itself]
    closed_sessions,  \* [Requests -> the sessions on which close() has been called]
    acc,              \* [Requests -> position and outcome of an attribute access on a lazy request]
    context,          \* AbstractBrowserClient.context, or NoObject before __ainit__
    page,             \* [Threads -> the wrapper the thread got from new_page, or went on with]
    used,             \* [Threads -> what the thread's last use of a wrapper gave]
    q_in,             \* queue-based BrowserSession._in: the calls waiting for main
    q_out,            \* queue-based BrowserSession._out: the responses not yet taken
    qpc,              \* [Threads -> position in _call_wrapper: "idle" | "get"]
    qn,               \* [Threads -> number of calls the thread has made through _call_wrapper]
    qgot,             \* [Threads -> what the thread's last _out.get() returned]
    main_pc,          \* position of main's loop: "get" | "call"
    main_cur,         \* the call main is running, or NoCall
    q_closed          \* queue-based BrowserSession._closed

vars == <<pc, stack, res, calls, nsub, cursub, opk, start_event, wpc, wcur, ready,
          task, fut, running_futures, lock, joins, playwright, inBackend, touched, epoch,
          member, call, cur, temp_engine, closed, resp, started, main_browser, closes,
          stoppedBy, held, got, requests, size, inc, all_resps, map_pc,
          lazy, ctor, session, rq_close, raise_exception, response, complete, send_pc,
          sends, built, closed_sessions, acc, context, page, used,
          q_in, q_out, qpc, qn, qgot, main_pc, main_cur, q_closed>>

callerVars == <<pc, stack, res, call, calls, nsub, cursub, epoch>>
wrapVars == <<held, got>>
mapVars == <<requests, size, inc, all_resps, map_pc>>
reqVars == <<lazy, ctor, session, rq_close, raise_exception, response, complete, send_pc,
             sends, built, closed_sessions, acc>>
\* The state of the libraries beside the engine bridge.
pageVars == <<context, page, used>>
queueVars == <<q_in, q_out, qpc, qn, qgot, main_pc, main_cur, q_closed>>
restVars == <<reqVars, pageVars, queueVars>>
\* The state of the engine bridge, its sessions and hrequests.map.
bridgeVars == <<pc, stack, res, call, calls, nsub, cursub, epoch, opk, start_event, wpc,
                wcur, playwright, ready, task, fut, running_futures, lock, joins,
                inBackend, touched, member, held, got, cur, temp_engine, closed, resp,
                started, main_browser, closes, stoppedBy, mapVars>>
\* The state of the wrappers and of hrequests.map: what no step of the engine, of
\* a session or of a caller inside execute touches.
proxyVars == <<touched, member, held, got, mapVars, restVars>>
sessVars == <<cur, temp_engine, closed, resp, started, main_browser, closes, stoppedBy>>
workerVars == <<wpc, wcur, playwright>>

\* ------------------------------------------------------------- outcomes
NoRes == [kind |-> "none", val |-> NoSub]
\* The value the coroutine of submission s returns, and the error it raises:
\* both carry the identity of the submission, so a mix-up is visible.
Result(s) == [kind |-> "result", val |-> s]
Failure(s) == [kind |-> "error", val |-> s]
CancelledError == [kind |-> "cancelled", val |-> NoSub]

\* Scheduled callbacks of the loop.
Cb(k, s) == [k |-> k, s |-> s]

\* ---------------------------------------------------------------- calls
\* Call a routine at label entry; continue at label cont when it returns.
Call(t, entry, cont) ==
    /\ pc' = [pc EXCEPT ![t] = entry]
    /\ stack' = [stack EXCEPT ![t] = <<cont>> \o @]

\* Return normally or raise to the caller's continuation; the continuation
\* inspects res[t].
Return(t, out) ==
    /\ pc' = [pc EXCEPT ![t] = Head(stack[t])]
    /\ stack' = [stack EXCEPT ![t] = Tail(@)]
    /\ res' = [res EXCEPT ![t] = out]

IsExc(r) == r.kind \in {"error", "cancelled", "attribute_error"}

\* ------------------------------------------- values of the handle graph
EngineIds == 1..NumEngines
\* No engine: nothing was handed to an engine.
NoEngine == 0

\* What hasattr(x, '__dict__') and hasattr(x, 'close') say about a backend value:
\* "handle" has both, "object" only attributes, "closable" only close, "plain"
\* neither.
Shapes == {"handle", "object", "closable", "plain"}
HasDict(sh) == sh \in {"handle", "object"}
HasClose(sh) == sh \in {"handle", "closable"}

\* A raw backend value of shape sh found at nesting depth d.
RawValue(sh, d) == [kind |-> "value", shape |-> sh, engine |-> NoEngine, depth |-> d]
\* BrowserObjectWrapper(obj, engine) around a raw value of shape sh.
BrowserObjectWrapper(sh, e, d) == [kind |-> "wrapper", shape |-> sh, engine |-> e, depth |-> d]
\* The synchronous callable `method` returned for a callable member (engine.py:205).
MethodWrapper(w) == [kind |-> "method", shape |-> "plain", engine |-> w.engine, depth |-> w.depth]
NoSuchMember == [kind |-> "attribute_error", shape |-> "plain", engine |-> NoEngine, depth |-> 0]
NoValue == [kind |-> "none", shape |-> "plain", engine |-> NoEngine, depth |-> 0]

\* What getattr(_obj, name) finds: whether the name exists, whether the value is
\* callable, whether it is a coroutine (an awaitable property), its own shape;
\* for a callable, whether calling it returns a coroutine; and the shape of the
\* value the call or the await ends with.  A coroutine object is not callable,
\* has no __dict__ and has a close method; a callable has no close method.
Attrs ==
    {a \in [exists : BOOLEAN, callable : BOOLEAN, coroutine : BOOLEAN, shape : Shapes,
             async : BOOLEAN, rshape : Shapes] :
        /\ ~(a.callable /\ a.coroutine)
        /\ a.coroutine => a.shape = "closable"
        /\ a.callable => ~HasClose(a.shape)
        /\ ~a.callable => ~a.async
        /\ ~a.exists => (~a.callable /\ ~a.coroutine /\ a.shape = "plain" /\ a.rshape = "plain")
        /\ (a.exists /\ ~a.callable /\ ~a.coroutine) => a.rshape = a.shape}
NoAttr == [exists |-> FALSE, callable |-> FALSE, coroutine |-> FALSE, shape |-> "plain",
           async |-> FALSE, rshape |-> "plain"]

\* (mutant) every result with attributes is wrapped, with a close method or not.
wrap_result_any_object(w, sh) ==
    IF HasDict(sh)
    THEN BrowserObjectWrapper(sh, w.engine, w.depth + 1)
    ELSE RawValue(sh, w.depth + 1)

\* engine.py:223-227  _wrap_result of wrapper w on a raw result of shape sh found
\* one level below w's handle.
wrap_result(w, sh) ==
    IF HasDict(sh) /\ HasClose(sh)
    THEN BrowserObjectWrapper(sh, w.engine, w.depth + 1)
    ELSE RawValue(sh, w.depth + 1)

\* The outcome of one use of a wrapper: what came back (out), the engine whose
\* execute ran a coroutine for it (via), the wrapper used (from), what the name
\* resolved to (attr), and whether it was the access or the call of the method.
Outcome(out, via, w, a, step) ==
    [out |-> out, via |-> via, from |-> w, attr |-> a, step |-> step]
\* Nothing accessed yet.
NoAccess == Outcome(NoValue, NoEngine, NoValue, NoAttr, "none")

\* ------------------------------------------------------- hrequests.map
\* size=None
SizeNone == 0 - 1
\* The Response built for the request at (1-based) position i of the list.
Response(i) == [kind |-> "Response", req |-> i]
\* reqs.py:308-323  FailedResponse(e)
FailedResponse == [kind |-> "FailedResponse", req |-> 0]

\* No call of map is in progress.
NoMap ==
    /\ requests = <<>>
    /\ size = SizeNone
    /\ inc = 0
    /\ all_resps = <<>>
    /\ map_pc = "idle"

\* ------------------------------------------- TLSRequest, its sessions
Requests == 1..NumRequests
\* self.session is None
NoSession == [kind |-> "None", n |-> 0]
\* The session the caller passed to the constructor.
Given == [kind |-> "given", n |-> 0]
\* The n-th session the request created itself.
Own(n) == [kind |-> "own", n |-> n]

\* No request exists.
NoRequests ==
    /\ lazy = [r \in Requests |-> FALSE]
    /\ ctor = [r \in Requests |-> "new"]
    /\ session = [r \in Requests |-> NoSession]
    /\ rq_close = [r \in Requests |-> FALSE]
    /\ raise_exception = [r \in Requests |-> FALSE]
    /\ response = [r \in Requests |-> None]
    /\ complete = [r \in Requests |-> "unset"]
    /\ send_pc = [r \in Requests |-> "idle"]
    /\ sends = [r \in Requests |-> 0]
    /\ built = [r \in Requests |-> 0]
    /\ closed_sessions = [r \in Requests |-> {}]
    /\ acc = [r \in Requests |-> "idle"]

\* A backend object of shape sh inside n layers of BrowserObjectWrapper: n = 0
\* is the raw object, n = 1 a wrapper holding the raw object, n = 2 a wrapper
\* whose _obj is itself a wrapper.
Layered(n, sh) == [wraps |-> n, shape |-> sh]
NoObject == Layered(0, "plain")
\* What one use of a wrapper gave: the value, and how many coroutines were
\* handed to _engine.execute for it.
Use(v, n, a) == [out |-> v, dispatches |-> n, attr |-> a]
NoUse == Use(NoObject, 0, NoAttr)

\* No client was created and no page opened.
NoPages ==
    /\ context = NoObject
    /\ page = [t \in Threads |-> NoObject]
    /\ used = [t \in Threads |-> NoUse]

\* The n-th call thread t makes through _call_wrapper, and what it ends with:
\* a value, a Playwright error (or timeout), or a BrowserException.
CallEnds == {"value", "PlaywrightError", "BrowserException"}
QueuedCall(t, n, e) == [id |-> <<t, n>>, ends |-> e]
NoCall == QueuedCall(0, 0, "value")
NoOut == [kind |-> "none", of |-> <<0, 0>>]

\* The queue-based session is idle: nothing was put into its queues.
NoQueue ==
    /\ q_in = <<>>
    /\ q_out = <<>>
    /\ qpc = [t \in Threads |-> "idle"]
    /\ qn = [t \in Threads |-> 0]
    /\ qgot = [t \in Threads |-> NoOut]
    /\ main_pc = "get"
    /\ main_cur = NoCall
    /\ q_closed = FALSE

NoRest == NoRequests /\ NoPages /\ NoQueue

\* ------------------------------------------------ BrowserEngine.execute
\* (mutant) execute goes on to submit without waiting for the readiness signal.
ExecNoWait(t) ==
    /\ pc[t] = "ex_wait"
    /\ pc' = [pc EXCEPT ![t] = "ex_submit"]
    /\ UNCHANGED <<stack, res, call, calls, nsub, cursub, opk, start_event, workerVars, ready,
                   task, fut, running_futures, lock, joins, inBackend, proxyVars, sessVars, epoch>>

\* engine.py:161  self.start_event.wait()
ExecWait(t) ==
    /\ pc[t] = "ex_wait"
    /\ start_event
    /\ pc' = [pc EXCEPT ![t] = "ex_submit"]
    /\ UNCHANGED <<stack, res, call, calls, nsub, cursub, opk, start_event, workerVars, ready,
                   task, fut, running_futures, lock, joins, inBackend, proxyVars, sessVars, epoch>>

\* engine.py:162  asyncio.run_coroutine_threadsafe(fn(*args, **kwargs), self.loop):
\* a new pending Future, and a callback on the loop that will create the task.
Submit(rq, s) == Append(rq, Cb("create", s))

ExecSubmit(t) ==
    /\ pc[t] = "ex_submit"
    /\ LET s == cursub[t] IN
        /\ fut' = [fut EXCEPT ![s] = [st |-> "PENDING", out |-> NoRes]]
        /\ ready' = Submit(ready, s)
    /\ pc' = [pc EXCEPT ![t] = "ex_register"]
    /\ UNCHANGED <<stack, res, call, calls, nsub, cursub, opk, start_event, workerVars,
                   task, running_futures, lock, joins, inBackend, proxyVars, sessVars, epoch>>

\* engine.py:151-152  with self.running_futures_lock: self.running_futures.add(future)
ExecRegister(t) ==
    /\ pc[t] = "ex_register"
    /\ lock = NoThread
    /\ running_futures' = running_futures \cup {cursub[t]}
    /\ pc' = [pc EXCEPT ![t] = "ex_result"]
    /\ UNCHANGED <<stack, res, call, calls, nsub, cursub, opk, start_event, workerVars, ready,
                   task, fut, lock, joins, inBackend, proxyVars, sessVars, epoch>>

\* engine.py:154  future.result(): blocks until the future is finished or cancelled.
FutureResult(f) == IF f.st = "CANCELLED" THEN CancelledError ELSE f.out

\* (mutant) execute takes whatever the future holds without waiting for it.
ExecResultNoWait(t) ==
    /\ pc[t] = "ex_result"
    /\ res' = [res EXCEPT ![t] = FutureResult(fut[cursub[t]])]
    /\ pc' = [pc EXCEPT ![t] = "ex_remove"]
    /\ UNCHANGED <<stack, call, calls, nsub, cursub, opk, start_event, workerVars, ready,
                   task, fut, running_futures, lock, joins, inBackend, proxyVars, sessVars, epoch>>

ExecResult(t) ==
    /\ pc[t] = "ex_result"
    /\ fut[cursub[t]].st \in {"FINISHED", "CANCELLED"}
    /\ res' = [res EXCEPT ![t] = FutureResult(fut[cursub[t]])]
    /\ pc' = [pc EXCEPT ![t] = "ex_remove"]
    /\ UNCHANGED <<stack, call, calls, nsub, cursub, opk, start_event, workerVars, ready,
                   task, fut, running_futures, lock, joins, inBackend, proxyVars, sessVars, epoch>>

\* (mutant) the future is removed only when future.result() returned a value.
ExecRemoveOnReturn(t) ==
    /\ pc[t] = "ex_remove"
    /\ lock = NoThread
    /\ running_futures' = IF IsExc(res[t]) THEN running_futures ELSE running_futures \ {cursub[t]}
    /\ Return(t, res[t])
    /\ UNCHANGED <<call, calls, nsub, cursub, opk, start_event, workerVars, ready,
                   task, fut, lock, joins, inBackend, proxyVars, sessVars, epoch>>

\* engine.py:155-157  finally: with the lock, self.running_futures.remove(future);
\* then the result is returned or the exception propagates.
ExecRemove(t) ==
    /\ pc[t] = "ex_remove"
    /\ lock = NoThread
    /\ running_futures' = running_futures \ {cursub[t]}
    /\ Return(t, res[t])
    /\ UNCHANGED <<call, calls, nsub, cursub, opk, start_event, workerVars, ready,
                   task, fut, lock, joins, inBackend, proxyVars, sessVars, epoch>>

\* --------------------------------------------------- BrowserEngine.stop
\* engine.py:121  with self.running_futures_lock:
StopLock(t) ==
    /\ pc[t] = "st_lock"
    /\ lock = NoThread
    /\ lock' = t
    /\ pc' = [pc EXCEPT ![t] = "st_cancel"]
    /\ UNCHANGED <<stack, res, call, calls, nsub, cursub, opk, start_event, workerVars, ready,
                   task, fut, running_futures, joins, inBackend, proxyVars, sessVars, epoch>>

\* All orders in which a set can be iterated.
Orders(S) == {q \in [1..Cardinality(S) -> S] : \A i, j \in 1..Cardinality(S) : q[i] = q[j] => i = j}

\* concurrent.futures.Future.cancel() on every future that is not done.  When the
\* task already exists, the chained done-callback schedules Task.cancel on the loop.
CancelCbs(order) ==
    LET live == SelectSeq(order, LAMBDA s : task[s] # "none")
    IN [i \in 1..Len(live) |-> Cb("cancel", live[i])]

\* engine.py:122-124  for future in self.running_futures: if not future.done(): future.cancel()
\* (still holding the lock, released on leaving the with block)
StopCancel(t) ==
    /\ pc[t] = "st_cancel"
    /\ LET pend == {s \in running_futures : fut[s].st = "PENDING"} IN
        /\ fut' = [s \in Subs |-> IF s \in pend THEN [st |-> "CANCELLED", out |-> NoRes] ELSE fut[s]]
        /\ \E order \in Orders(pend) : ready' = ready \o CancelCbs(order)
    /\ lock' = NoThread
    /\ pc' = [pc EXCEPT ![t] = "st_callsoon"]
    /\ UNCHANGED <<stack, res, call, calls, nsub, cursub, opk, start_event, workerVars,
                   task, running_futures, joins, inBackend, proxyVars, sessVars, epoch>>

\* engine.py:126  self.loop.call_soon_threadsafe(self.loop.stop): the loop is never
\* closed, so the callback is accepted whatever the worker is doing.
StopCallSoon(t) ==
    /\ pc[t] = "st_callsoon"
    /\ ready' = Append(ready, Cb("stop", NoSub))
    /\ pc' = [pc EXCEPT ![t] = "st_join"]
    /\ UNCHANGED <<stack, res, call, calls, nsub, cursub, opk, start_event, workerVars,
                   task, fut, running_futures, lock, joins, inBackend, proxyVars, sessVars, epoch>>

\* engine.py:127  self.thread.join(): returns once the worker thread has ended.
\* Every call of stop() joins: nothing records that the engine was stopped.
JoinWorker(n) == n + 1

StopJoin(t) ==
    /\ pc[t] = "st_join"
    /\ wpc = "dead"
    /\ joins' = JoinWorker(joins)
    /\ Return(t, [kind |-> "stopped", val |-> NoSub])
    /\ UNCHANGED <<call, calls, nsub, cursub, opk, start_event, workerVars, ready,
                   task, fut, running_futures, lock, inBackend, proxyVars, sessVars, epoch>>

\* ------------------------------------------- BrowserEngine.__thread_worker
\* The loop runs scheduled callbacks while one of run_until_complete (engine.py:140,
\* 147, 148) or run_forever (engine.py:145) is running it.
Pumping == {"loop", "final1", "final2"}

HeadIs(k) == ready # <<>> /\ Head(ready).k = k

\* What the coroutine of submission s ends with.
TaskOutcome(s) == IF opk[s] = "raise" THEN Failure(s) ELSE Result(s)

\* engine.py:140  self.loop.run_until_complete(self.__start_playwright()) completes.
WorkerStart ==
    /\ wpc = "start"
    /\ playwright' = "started"
    /\ wpc' = "set_ready"
    /\ UNCHANGED <<callerVars, opk, start_event, wcur, ready, task, fut,
                   running_futures, lock, joins, inBackend, proxyVars, sessVars>>

\* engine.py:140  a loop.stop() scheduled by stop() runs while the backend is still
\* starting: run_until_complete raises RuntimeError and the worker thread ends
\* before line 141.
WorkerStartStopped ==
    /\ wpc = "start"
    /\ HeadIs("stop")
    /\ ready' = Tail(ready)
    /\ wpc' = "dead"
    /\ UNCHANGED <<callerVars, opk, start_event, wcur, playwright, task, fut,
                   running_futures, lock, joins, inBackend, proxyVars, sessVars>>

\* engine.py:141  self.start_event.set(); then line 145 run_forever()
WorkerSetReady ==
    /\ wpc = "set_ready"
    /\ start_event' = TRUE
    /\ wpc' = "loop"
    /\ UNCHANGED <<callerVars, opk, wcur, ready, playwright, task, fut,
                   running_futures, lock, joins, inBackend, proxyVars, sessVars>>

\* The callback of run_coroutine_threadsafe: ensure_future creates the task, whose
\* first step is scheduled; _chain_future links task and future, and finding the
\* future already cancelled schedules Task.cancel right behind.
WorkerCreate ==
    /\ wpc \in Pumping /\ wcur = NoSub
    /\ HeadIs("create")
    /\ LET s == Head(ready).s IN
        /\ task' = [task EXCEPT ![s] = "ready"]
        /\ ready' = Tail(ready) \o <<Cb("step", s)>>
                     \o (IF fut[s].st = "CANCELLED" THEN <<Cb("cancel", s)>> ELSE <<>>)
    /\ UNCHANGED <<callerVars, opk, start_event, workerVars, fut,
                   running_futures, lock, joins, inBackend, proxyVars, sessVars>>

\* A scheduled step of a task runs when the loop reaches it, whatever the other
\* tasks are doing: a suspended task holds no thread.
CanStepSerial(s) == task[s] \in {"ready", "woken"} /\ \A o \in Subs : task[o] # "suspended"

CanStep(s) == task[s] \in {"ready", "woken"}

\* Task.__step of a task that is not being cancelled: the coroutine runs on the
\* worker thread until it returns, raises or suspends.
WorkerStepBegin ==
    /\ wpc \in Pumping /\ wcur = NoSub
    /\ HeadIs("step")
    /\ LET s == Head(ready).s IN
        /\ CanStep(s)
        /\ task' = [task EXCEPT ![s] = IF task[s] = "ready" THEN "run1" ELSE "run2"]
        /\ wcur' = s
    /\ ready' = Tail(ready)
    /\ inBackend' = inBackend \cup {Worker}
    /\ UNCHANGED <<callerVars, opk, start_event, wpc, playwright, fut,
                   running_futures, lock, joins, proxyVars, sessVars>>

\* The state of the task when its running step ends: a "slow" coroutine suspends
\* in its first step and returns in its second.
StepResult(s) == IF opk[s] = "slow" /\ task[s] = "run1" THEN "suspended" ELSE "done"

\* A finished task schedules its done-callbacks (the copy to the caller's future).
WorkerStepEnd ==
    /\ wcur # NoSub
    /\ LET s == wcur IN
        /\ task' = [task EXCEPT ![s] = StepResult(s)]
        /\ ready' = IF StepResult(s) = "done" THEN Append(ready, Cb("copy", s)) ELSE ready
    /\ wcur' = NoSub
    /\ inBackend' = inBackend \ {Worker}
    /\ UNCHANGED <<callerVars, opk, start_event, wpc, playwright, fut,
                   running_futures, lock, joins, proxyVars, sessVars>>

\* Task.__step of a task with a cancellation requested: CancelledError is thrown
\* into the coroutine, which ends cancelled without running further.
WorkerStepCancelled ==
    /\ wpc \in Pumping /\ wcur = NoSub
    /\ HeadIs("step")
    /\ LET s == Head(ready).s IN
        /\ task[s] = "cancelling"
        /\ task' = [task EXCEPT ![s] = "cancelled"]
        /\ ready' = Append(Tail(ready), Cb("copy", s))
    /\ UNCHANGED <<callerVars, opk, start_event, workerVars, fut,
                   running_futures, lock, joins, inBackend, proxyVars, sessVars>>

\* Task.cancel, scheduled by the cancelled future: a suspended task is woken to
\* be cancelled, a task with a step already scheduled is marked, a finished one
\* is left alone.
WorkerCancel ==
    /\ wpc \in Pumping /\ wcur = NoSub
    /\ HeadIs("cancel")
    /\ LET s == Head(ready).s IN
        /\ task' = [task EXCEPT ![s] = IF @ \in {"ready", "woken", "suspended"}
                                        THEN "cancelling" ELSE @]
        /\ ready' = IF task[s] = "suspended" THEN Append(Tail(ready), Cb("step", s))
                    ELSE Tail(ready)
    /\ UNCHANGED <<callerVars, opk, start_event, workerVars, fut,
                   running_futures, lock, joins, inBackend, proxyVars, sessVars>>

\* (mutant) the outcome of the finished task lands in whichever future is pending.
ChainFutureMixed(f, s) ==
    LET pend == {o \in Subs : f[o].st = "PENDING"} IN
    IF pend # {}
    THEN [f EXCEPT ![CHOOSE o \in pend : \A q \in pend : q[1] >= o[1]] =
                       [st |-> "FINISHED", out |-> TaskOutcome(s)]]
    ELSE f

\* futures._set_concurrent_future_state: the state of the finished task of
\* submission s is copied to the future of submission s, unless that future has
\* been cancelled meanwhile.
ChainFuture(f, s) ==
    IF f[s].st = "PENDING"
    THEN [f EXCEPT ![s] = IF task[s] = "cancelled"
                          THEN [st |-> "CANCELLED", out |-> NoRes]
                          ELSE [st |-> "FINISHED", out |-> TaskOutcome(s)]]
    ELSE f

WorkerCopy ==
    /\ wpc \in Pumping /\ wcur = NoSub
    /\ HeadIs("copy")
    /\ fut' = ChainFuture(fut, Head(ready).s)
    /\ ready' = Tail(ready)
    /\ UNCHANGED <<callerVars, opk, start_event, workerVars, task,
                   running_futures, lock, joins, inBackend, proxyVars, sessVars>>

\* A backend event arrives for a suspended task: the loop schedules its next step.
BackendEvent(s) ==
    /\ wpc \in Pumping /\ wcur = NoSub
    /\ task[s] = "suspended"
    /\ task' = [task EXCEPT ![s] = "woken"]
    /\ ready' = Append(ready, Cb("step", s))
    /\ UNCHANGED <<callerVars, opk, start_event, workerVars, fut,
                   running_futures, lock, joins, inBackend, proxyVars, sessVars>>

\* loop.stop() inside run_forever (engine.py:145): the loop returns and the finally
\* block starts run_until_complete(self.loop.shutdown_asyncgens()) (engine.py:147).
WorkerLoopStop ==
    /\ wpc = "loop" /\ wcur = NoSub
    /\ HeadIs("stop")
    /\ wpc' = "final1"
    /\ ready' = Append(Tail(ready), Cb("fin1", NoSub))
    /\ UNCHANGED <<callerVars, opk, start_event, wcur, playwright, task, fut,
                   running_futures, lock, joins, inBackend, proxyVars, sessVars>>

\* loop.stop() inside run_until_complete(self.loop.shutdown_asyncgens())
\* (engine.py:147): that coroutine finishes in its first step, in the iteration of
\* the loop that runs the stop, so the call still returns normally.
WorkerFinal1Stop ==
    /\ wpc = "final1" /\ wcur = NoSub
    /\ HeadIs("stop")
    /\ ready' = Tail(ready)
    /\ UNCHANGED <<callerVars, opk, start_event, workerVars, task, fut,
                   running_futures, lock, joins, inBackend, proxyVars, sessVars>>

\* loop.stop() inside run_until_complete(self.__stop_playwright()) (engine.py:148),
\* which waits for the driver: the loop stops before the coroutine has finished,
\* run_until_complete raises RuntimeError and the worker thread ends there.
WorkerFinalStopped ==
    /\ wpc = "final2" /\ wcur = NoSub
    /\ HeadIs("stop")
    /\ wpc' = "dead"
    /\ ready' = Tail(ready)
    /\ UNCHANGED <<callerVars, opk, start_event, wcur, playwright, task, fut,
                   running_futures, lock, joins, inBackend, proxyVars, sessVars>>

\* engine.py:147 completes; engine.py:148 run_until_complete(self.__stop_playwright())
WorkerFinal1 ==
    /\ wpc = "final1" /\ wcur = NoSub
    /\ HeadIs("fin1")
    /\ wpc' = "final2"
    /\ ready' = Append(Tail(ready), Cb("fin2", NoSub))
    /\ UNCHANGED <<callerVars, opk, start_event, wcur, playwright, task, fut,
                   running_futures, lock, joins, inBackend, proxyVars, sessVars>>

\* engine.py:118  await self.playwright.stop(): either still waiting for the driver
\* (the loop keeps running other callbacks) or finished, which ends the thread.
WorkerFinal2(finished) ==
    /\ wpc = "final2" /\ wcur = NoSub
    /\ HeadIs("fin2")
    /\ IF finished
       THEN /\ wpc' = "dead"
            /\ playwright' = "stopped"
            /\ ready' = Tail(ready)
       ELSE /\ Len(ready) > 1
            /\ ready' = Append(Tail(ready), Cb("fin2", NoSub))
            /\ UNCHANGED <<wpc, playwright>>
    /\ UNCHANGED <<callerVars, opk, start_event, wcur, task, fut,
                   running_futures, lock, joins, inBackend, proxyVars, sessVars>>

\* The worker of an engine that nobody stops.
EngineServe ==
    \/ WorkerStart
    \/ WorkerSetReady
    \/ WorkerCreate
    \/ WorkerStepBegin
    \/ WorkerStepEnd
    \/ WorkerCopy
    \/ \E s \in Subs : BackendEvent(s)

Engine ==
    \/ WorkerStart
    \/ WorkerStartStopped
    \/ WorkerSetReady
    \/ WorkerCreate
    \/ WorkerStepBegin
    \/ WorkerStepEnd
    \/ WorkerStepCancelled
    \/ WorkerCancel
    \/ WorkerCopy
    \/ WorkerLoopStop
    \/ WorkerFinal1Stop
    \/ WorkerFinalStopped
    \/ WorkerFinal1
    \/ \E finished \in BOOLEAN : WorkerFinal2(finished)
    \/ \E s \in Subs : BackendEvent(s)

ExecuteSteps(t) ==
    \/ ExecWait(t)
    \/ ExecSubmit(t)
    \/ ExecRegister(t)
    \/ ExecResult(t)
    \/ ExecRemove(t)

StopSteps(t) ==
    \/ StopLock(t)
    \/ StopCancel(t)
    \/ StopCallSoon(t)
    \/ StopJoin(t)

\* ------------------------------------------------- callers of the Engine
StopLabels == {"st_lock", "st_cancel", "st_callsoon", "st_join"}
ExecLabels == {"ex_wait", "ex_submit", "ex_register", "ex_result", "ex_remove"}

\* When a call of the engine is made: before any stop() was called ("pre"), while
\* a stop() is running ("mid"), or after a stop() has returned ("post").
Now ==
    IF joins > 0 THEN "post"
    ELSE IF \E u \in Threads : pc[u] \in StopLabels THEN "mid"
    ELSE "pre"

NewSub(t) == <<t, nsub[t] + 1>>

\* Thread t enters engine.execute(fn) with a coroutine function of kind k and
\* continues at cont when execute returns or raises.
ExecuteSetup(t, k) ==
    /\ nsub' = [nsub EXCEPT ![t] = @ + 1]
    /\ cursub' = [cursub EXCEPT ![t] = NewSub(t)]
    /\ opk' = [opk EXCEPT ![NewSub(t)] = k]
    /\ epoch' = [epoch EXCEPT ![t] = Now]

EnterExecute(t, k, cont) ==
    /\ ExecuteSetup(t, k)
    /\ Call(t, "ex_wait", cont)

\* "return engine.execute(...)": execute returns or raises straight to the caller
\* of the routine that calls it.
ReturnExecute(t, k) ==
    /\ ExecuteSetup(t, k)
    /\ pc' = [pc EXCEPT ![t] = "ex_wait"]
    /\ UNCHANGED stack

\* Thread t enters engine.stop() and continues at cont when it returns.
EnterStop(t, cont) ==
    /\ epoch' = [epoch EXCEPT ![t] = Now]
    /\ Call(t, "st_lock", cont)

\* A caller thread calls engine.execute(fn) with a coroutine function of kind k.
CallExecute(t, k) ==
    /\ pc[t] = "idle"
    /\ calls[t] < MaxCalls
    /\ calls' = [calls EXCEPT ![t] = @ + 1]
    /\ call' = [call EXCEPT ![t] = "execute"]
    /\ res' = [res EXCEPT ![t] = NoRes]
    /\ EnterExecute(t, k, "idle")
    /\ UNCHANGED <<start_event, workerVars, ready, task, fut, running_futures, lock,
                   joins, inBackend, proxyVars, sessVars>>

\* A caller thread calls engine.stop() (directly, or through __exit__ / __del__,
\* engine.py:129-136).
CallStop(t) ==
    /\ pc[t] = "idle"
    /\ calls[t] < MaxCalls
    /\ calls' = [calls EXCEPT ![t] = @ + 1]
    /\ call' = [call EXCEPT ![t] = "stop"]
    /\ res' = [res EXCEPT ![t] = NoRes]
    /\ EnterStop(t, "idle")
    /\ UNCHANGED <<nsub, cursub, opk, start_event, workerVars, ready, task, fut,
                   running_futures, lock, joins, inBackend, proxyVars, sessVars>>

\* engine.py:91-104  BrowserEngine.__init__: the loop exists, the worker thread has
\* been started and has not signalled readiness yet.
EngineInit ==
    /\ start_event = FALSE
    /\ wpc = "start"
    /\ wcur = NoSub
    /\ ready = <<>>
    /\ task = [s \in Subs |-> "none"]
    /\ fut = [s \in Subs |-> [st |-> "none", out |-> NoRes]]
    /\ running_futures = {}
    /\ lock = NoThread
    /\ joins = 0
    /\ playwright = "none"
    /\ inBackend = {}

CallerInit ==
    /\ pc = [t \in Threads |-> "idle"]
    /\ stack = [t \in Threads |-> <<>>]
    /\ res = [t \in Threads |-> NoRes]
    /\ calls = [t \in Threads |-> 0]
    /\ nsub = [t \in Threads |-> 0]
    /\ cursub = [t \in Threads |-> NoSub]
    /\ opk = [s \in Subs |-> None]
    /\ call = [t \in Threads |-> "none"]
    /\ epoch = [t \in Threads |-> "none"]

\* No wrapper has been used yet.
ProxyInit ==
    /\ touched = {}
    /\ member = [t \in Threads |-> None]
    /\ held = [t \in Threads |-> BrowserObjectWrapper("handle", 1, 0)]
    /\ got = [t \in Threads |-> NoAccess]

\* Specifications without BrowserSession objects: the session fields stay unused.
NoSessions ==
    /\ cur = [t \in Threads |-> 1]
    /\ temp_engine = [s \in Sessions |-> FALSE]
    /\ closed = [s \in Sessions |-> FALSE]
    /\ resp = [s \in Sessions |-> FALSE]
    /\ started = [s \in Sessions |-> "none"]
    /\ main_browser = [s \in Sessions |-> FALSE]
    /\ closes = [s \in Sessions |-> 0]
    /\ stoppedBy = {}

Init == EngineInit /\ CallerInit /\ ProxyInit /\ NoSessions /\ NoMap /\ NoRest

Next ==
    \/ Engine
    \/ \E t \in Threads : ExecuteSteps(t)
    \/ \E t \in Threads : StopSteps(t)
    \/ \E t \in Threads, k \in OpKinds : CallExecute(t, k)
    \/ \E t \in Threads : CallStop(t)

Spec == Init /\ [][Next]_vars

\* ------------------------------------- BrowserObjectWrapper.__getattribute__
\* What a name resolves to on the wrapped handle: a plain value, a method that
\* returns an immediate value, an async method (returns a coroutine), an awaitable
\* property (a coroutine), an object with attributes, or nothing.
MemberKinds == {"plain", "sync_method", "async_method", "awaitable", "nested", "missing"}

PlainValue == [kind |-> "value", val |-> NoSub]
Wrapper == [kind |-> "wrapper", val |-> NoSub]
\* (mutant) a missing name gives a wrapper around nothing instead of an error.
DeadWrapper == [kind |-> "wrapper", val |-> NoSub]
AttributeError == [kind |-> "attribute_error", val |-> NoSub]

\* A caller thread evaluates proxy.name (and calls it when it is a method).
ProxyAccess(t, m) ==
    /\ pc[t] = "idle"
    /\ calls[t] < MaxCalls
    /\ calls' = [calls EXCEPT ![t] = @ + 1]
    /\ call' = [call EXCEPT ![t] = "proxy"]
    /\ member' = [member EXCEPT ![t] = m]
    /\ res' = [res EXCEPT ![t] = NoRes]
    /\ epoch' = [epoch EXCEPT ![t] = Now]
    /\ Call(t, "px_getattr", "idle")
    /\ UNCHANGED <<nsub, cursub, opk, start_event, workerVars, ready, task, fut,
                   running_futures, lock, joins, inBackend, touched, wrapVars, mapVars, restVars,
                   sessVars>>

\* The thread on which line 187 reads the member and line 193 calls it: the thread
\* that uses the wrapper.
HandleThread(t) == {t}

\* engine.py:185-187  attr = getattr(_obj, name), then the classification of
\* lines 189-221.  A missing name raises AttributeError at line 187.
ProxyGetattr(t, k) ==
    /\ pc[t] = "px_getattr"
    /\ touched' = touched \cup HandleThread(t)
    /\ CASE member[t] = "missing" ->
              /\ Return(t, AttributeError)
              /\ UNCHANGED <<nsub, cursub, opk, epoch>>
         [] member[t] \in {"sync_method", "async_method"} ->
              \* line 205: the wrapper `method` is returned, and the caller calls it
              /\ pc' = [pc EXCEPT ![t] = "px_invoke"]
              /\ UNCHANGED <<stack, res, nsub, cursub, opk, epoch>>
         [] member[t] = "awaitable" ->
              \* line 213: return _engine.execute(task)
              /\ ReturnExecute(t, k)
              /\ UNCHANGED res
         [] member[t] = "nested" ->
              \* line 217: BrowserObjectWrapper(attr, _engine)
              /\ Return(t, Wrapper)
              /\ UNCHANGED <<nsub, cursub, opk, epoch>>
         [] OTHER ->
              \* line 221: return attr
              /\ Return(t, PlainValue)
              /\ UNCHANGED <<nsub, cursub, opk, epoch>>
    /\ UNCHANGED <<call, calls, start_event, workerVars, ready, task, fut,
                   running_futures, lock, joins, inBackend, member, wrapVars, mapVars, restVars,
                   sessVars>>

\* engine.py:193  result = attr(*args, **kwargs), on the calling thread.  A
\* synchronous method runs its whole body there; an async method only builds its
\* coroutine.
ProxyInvoke(t) ==
    /\ pc[t] = "px_invoke"
    /\ touched' = touched \cup HandleThread(t)
    /\ inBackend' = IF member[t] = "sync_method" THEN inBackend \cup HandleThread(t)
                    ELSE inBackend
    /\ pc' = [pc EXCEPT ![t] = "px_invoked"]
    /\ UNCHANGED <<stack, res, call, calls, nsub, cursub, epoch, opk, start_event,
                   workerVars, ready, task, fut, running_futures, lock, joins, member,
                   wrapVars, mapVars, restVars, sessVars>>

\* engine.py:194-203  a coroutine is handed to _engine.execute (line 200); any
\* other result goes through _wrap_result and is returned (line 203).
ProxyInvoked(t, k) ==
    /\ pc[t] = "px_invoked"
    /\ inBackend' = inBackend \ {t}
    /\ IF member[t] = "async_method"
       THEN /\ ReturnExecute(t, k)
            /\ UNCHANGED res
       ELSE /\ Return(t, PlainValue)
            /\ UNCHANGED <<nsub, cursub, opk, epoch>>
    /\ UNCHANGED <<call, calls, start_event, workerVars, ready, task, fut,
                   running_futures, lock, joins, proxyVars, sessVars>>

ProxySteps(t) ==
    \/ \E k \in OpKinds : ProxyGetattr(t, k)
    \/ ProxyInvoke(t)
    \/ \E k \in OpKinds : ProxyInvoked(t, k)

\* Caller threads use one engine through BrowserObjectWrapper objects.
NextProxy ==
    \/ EngineServe
    \/ \E t \in Threads : ExecuteSteps(t)
    \/ \E t \in Threads, m \in MemberKinds : ProxyAccess(t, m)
    \/ \E t \in Threads : ProxySteps(t)

SpecProxy == Init /\ [][NextProxy]_vars

\* --------------------------- BrowserObjectWrapper: what an access returns
\* (mutant) the test for attributes comes before the test for a callable.
GetAttributeDictFirst(w, a) ==
    IF ~a.exists THEN Outcome(NoSuchMember, NoEngine, w, a, "getattr")
    ELSE IF HasDict(a.shape)
    THEN Outcome(BrowserObjectWrapper(a.shape, w.engine, w.depth + 1), NoEngine, w, a, "getattr")
    ELSE IF a.callable THEN Outcome(MethodWrapper(w), NoEngine, w, a, "getattr")
    ELSE IF a.coroutine THEN Outcome(wrap_result(w, a.rshape), w.engine, w, a, "getattr")
    ELSE Outcome(RawValue(a.shape, w.depth + 1), NoEngine, w, a, "getattr")

\* engine.py:177-221  wrapper.name on wrapper w when getattr(_obj, name) finds a:
\* line 187 raises for a missing name; a callable gives `method` (189-205); a
\* coroutine is awaited through _engine.execute and its result goes through
\* _wrap_result (207-213); another value with attributes is wrapped with the
\* same engine (215-217); anything else is returned as it is (219-221).
GetAttribute(w, a) ==
    IF ~a.exists THEN Outcome(NoSuchMember, NoEngine, w, a, "getattr")
    ELSE IF a.callable THEN Outcome(MethodWrapper(w), NoEngine, w, a, "getattr")
    ELSE IF a.coroutine THEN Outcome(wrap_result(w, a.rshape), w.engine, w, a, "getattr")
    ELSE IF HasDict(a.shape)
    THEN Outcome(BrowserObjectWrapper(a.shape, w.engine, w.depth + 1), NoEngine, w, a, "getattr")
    ELSE Outcome(RawValue(a.shape, w.depth + 1), NoEngine, w, a, "getattr")

\* engine.py:192-203  method(*args): the member is called; a coroutine it returns
\* is awaited through _engine.execute, and the result goes through _wrap_result
\* either way.
MethodCall(w, a) ==
    Outcome(wrap_result(w, a.rshape), IF a.async THEN w.engine ELSE NoEngine, w, a, "call")

\* A thread evaluates held[t].name for a name that resolves to a.
WrapAccess(t, a) ==
    /\ held[t].depth < MaxDepth
    /\ got' = [got EXCEPT ![t] = GetAttribute(held[t], a)]
    /\ UNCHANGED <<callerVars, opk, start_event, workerVars, ready, task, fut,
                   running_futures, lock, joins, inBackend, touched, member, held,
                   mapVars, restVars, sessVars>>

\* The thread calls the `method` it got.
WrapInvoke(t) ==
    /\ got[t].out.kind = "method"
    /\ got' = [got EXCEPT ![t] = MethodCall(got[t].from, got[t].attr)]
    /\ UNCHANGED <<callerVars, opk, start_event, workerVars, ready, task, fut,
                   running_futures, lock, joins, inBackend, touched, member, held,
                   mapVars, restVars, sessVars>>

\* The thread goes on with the wrapper it got: its next access is made on it.
WrapDescend(t) ==
    /\ got[t].out.kind = "wrapper"
    /\ held' = [held EXCEPT ![t] = got[t].out]
    /\ UNCHANGED <<callerVars, opk, start_event, workerVars, ready, task, fut,
                   running_futures, lock, joins, inBackend, touched, member, got,
                   mapVars, restVars, sessVars>>

\* Each thread starts with a wrapper of a top-level handle, bound to some engine.
WrapInit ==
    /\ touched = {}
    /\ member = [t \in Threads |-> None]
    /\ held \in [Threads -> {BrowserObjectWrapper("handle", e, 0) : e \in EngineIds}]
    /\ got = [t \in Threads |-> NoAccess]

InitWrap == EngineInit /\ CallerInit /\ WrapInit /\ NoSessions /\ NoMap /\ NoRest

NextWrap ==
    \/ \E t \in Threads, a \in Attrs : WrapAccess(t, a)
    \/ \E t \in Threads : WrapInvoke(t)
    \/ \E t \in Threads : WrapDescend(t)

SpecWrap == InitWrap /\ [][NextWrap]_vars

\* ------------------------------- AbstractBrowserClient and BrowserSession
\* What the coroutines submitted by a session do: succeed or fail.
SessionKinds == {"value", "raise"}

RECURSIVE SumCalls(_)
SumCalls(n) == IF n = 0 THEN 0 ELSE calls[n] + SumCalls(n - 1)

TotalCalls == SumCalls(NumThreads)

\* A thread calls session.close() (directly, through __exit__ at browser.py:156-157
\* or through __del__ at browser.py:609-610).
CallClose(t, s) ==
    /\ pc[t] = "idle"
    /\ calls[t] < MaxCalls
    /\ TotalCalls < MaxSessionCalls
    /\ calls' = [calls EXCEPT ![t] = @ + 1]
    /\ call' = [call EXCEPT ![t] = "close"]
    /\ cur' = [cur EXCEPT ![t] = s]
    /\ res' = [res EXCEPT ![t] = NoRes]
    /\ Call(t, "cl_check", "idle")
    /\ UNCHANGED <<nsub, cursub, epoch, opk, start_event, workerVars, ready, task, fut,
                   running_futures, lock, joins, inBackend, proxyVars, temp_engine, closed,
                   resp, started, main_browser, closes, stoppedBy>>

\* A thread calls session.shutdown().
CallShutdown(t, s) ==
    /\ pc[t] = "idle"
    /\ calls[t] < MaxCalls
    /\ TotalCalls < MaxSessionCalls
    /\ calls' = [calls EXCEPT ![t] = @ + 1]
    /\ call' = [call EXCEPT ![t] = "shutdown"]
    /\ cur' = [cur EXCEPT ![t] = s]
    /\ res' = [res EXCEPT ![t] = NoRes]
    /\ Call(t, "sh_begin", "idle")
    /\ UNCHANGED <<nsub, cursub, epoch, opk, start_event, workerVars, ready, task, fut,
                   running_futures, lock, joins, inBackend, proxyVars, temp_engine, closed,
                   resp, started, main_browser, closes, stoppedBy>>

\* A thread calls session.client.stop(), on a session that has a client.
CallClientStop(t, s) ==
    /\ pc[t] = "idle"
    /\ started[s] # "none"
    /\ calls[t] < MaxCalls
    /\ TotalCalls < MaxSessionCalls
    /\ calls' = [calls EXCEPT ![t] = @ + 1]
    /\ call' = [call EXCEPT ![t] = "client_stop"]
    /\ cur' = [cur EXCEPT ![t] = s]
    /\ res' = [res EXCEPT ![t] = NoRes]
    /\ Call(t, "cs_begin", "idle")
    /\ UNCHANGED <<nsub, cursub, epoch, opk, start_event, workerVars, ready, task, fut,
                   running_futures, lock, joins, inBackend, proxyVars, temp_engine, closed,
                   resp, started, main_browser, closes, stoppedBy>>

\* browser.py:593-596  if self._closed: return; cookiejar = self.getCookies()
\* (getCookies is self.context.cookies() through the wrapper: one execute; on a
\* session whose start() did not get as far as line 143, self.context does
\* not exist and browser.py:401 raises AttributeError).
CloseCheck(t, k) ==
    /\ pc[t] = "cl_check"
    /\ IF closed[cur[t]]
       THEN /\ Return(t, PlainValue)
            /\ UNCHANGED <<nsub, cursub, opk, epoch>>
       ELSE IF started[cur[t]] # "full"
       THEN /\ Return(t, AttributeError)
            /\ UNCHANGED <<nsub, cursub, opk, epoch>>
       ELSE /\ EnterExecute(t, k, "cl_cookies")
            /\ UNCHANGED res
    /\ UNCHANGED <<call, calls, start_event, workerVars, ready, task, fut,
                   running_futures, lock, joins, inBackend, proxyVars, sessVars>>

\* browser.py:596-603  an exception of getCookies leaves close(); otherwise the
\* cookies are stored and, with a response, self.page.content() is fetched.
CloseCookies(t, k) ==
    /\ pc[t] = "cl_cookies"
    /\ IF IsExc(res[t])
       THEN /\ Return(t, res[t])
            /\ UNCHANGED <<nsub, cursub, opk, epoch>>
       ELSE IF resp[cur[t]]
       THEN /\ EnterExecute(t, k, "cl_content")
            /\ UNCHANGED res
       ELSE /\ pc' = [pc EXCEPT ![t] = "sh_begin"]
            /\ UNCHANGED <<stack, res, nsub, cursub, opk, epoch>>
    /\ UNCHANGED <<call, calls, start_event, workerVars, ready, task, fut,
                   running_futures, lock, joins, inBackend, proxyVars, sessVars>>

\* browser.py:603-607  an exception of page.content() leaves close(); otherwise
\* url and status are stored and self.shutdown() is called.
CloseContent(t) ==
    /\ pc[t] = "cl_content"
    /\ IF IsExc(res[t])
       THEN Return(t, res[t])
       ELSE /\ pc' = [pc EXCEPT ![t] = "sh_begin"]
            /\ UNCHANGED <<stack, res>>
    /\ UNCHANGED <<call, calls, nsub, cursub, epoch, opk, start_event, workerVars, ready,
                   task, fut, running_futures, lock, joins, inBackend, proxyVars, sessVars>>

\* browser.py:146-148  self._closed = True; self.client.stop()
\* (on a session whose start() did not get as far as line 132, self.client does
\* not exist and line 148 raises AttributeError).
Shutdown(t) ==
    /\ pc[t] = "sh_begin"
    /\ closed' = [closed EXCEPT ![cur[t]] = TRUE]
    /\ IF started[cur[t]] = "none"
       THEN Return(t, AttributeError)
       ELSE Call(t, "cs_begin", "sh_engine") /\ UNCHANGED res
    /\ UNCHANGED <<call, calls, nsub, cursub, epoch, opk, start_event, workerVars,
                   ready, task, fut, running_futures, lock, joins, inBackend, proxyVars,
                   cur, temp_engine, resp, started, main_browser, closes, stoppedBy>>

\* Whether stop() hands main_browser.close to the engine: main_browser is set by
\* _start_context and never cleared.
MustClose(s) == main_browser[s]

\* engine.py:67-68  if self.main_browser: self.engine.execute(self.main_browser.close)
ClientStop(t, k) ==
    /\ pc[t] = "cs_begin"
    /\ IF MustClose(cur[t])
       THEN /\ closes' = [closes EXCEPT ![cur[t]] = @ + 1]
            /\ EnterExecute(t, k, "cs_end")
            /\ UNCHANGED res
       ELSE /\ Return(t, PlainValue)
            /\ UNCHANGED <<closes, nsub, cursub, opk, epoch>>
    /\ UNCHANGED <<call, calls, start_event, workerVars, ready, task, fut,
                   running_futures, lock, joins, inBackend, proxyVars,
                   cur, temp_engine, closed, resp, started, main_browser, stoppedBy>>

\* engine.py:68  the result of execute is dropped, its exception propagates.
ClientStopEnd(t) ==
    /\ pc[t] = "cs_end"
    /\ Return(t, IF IsExc(res[t]) THEN res[t] ELSE PlainValue)
    /\ UNCHANGED <<call, calls, nsub, cursub, epoch, opk, start_event, workerVars, ready,
                   task, fut, running_futures, lock, joins, inBackend, proxyVars, sessVars>>

\* Whether shutdown() goes on to stop the engine after client.stop() ended with r.
StopsEngine(s, r) == ~IsExc(r) /\ temp_engine[s]

\* browser.py:148-151  an exception of client.stop() leaves shutdown(); otherwise
\* if self.temp_engine: self.engine.stop()
ShutdownEngine(t) ==
    /\ pc[t] = "sh_engine"
    /\ IF StopsEngine(cur[t], res[t])
       THEN /\ stoppedBy' = stoppedBy \cup {cur[t]}
            /\ epoch' = [epoch EXCEPT ![t] = Now]
            /\ pc' = [pc EXCEPT ![t] = "st_lock"]
            /\ UNCHANGED <<stack, res>>
       ELSE /\ Return(t, res[t])
            /\ UNCHANGED <<stoppedBy, epoch>>
    /\ UNCHANGED <<call, calls, nsub, cursub, opk, start_event, workerVars, ready,
                   task, fut, running_futures, lock, joins, inBackend, proxyVars,
                   cur, temp_engine, closed, resp, started, main_browser, closes>>

SessionSteps(t) ==
    \/ \E k \in SessionKinds : CloseCheck(t, k)
    \/ \E k \in SessionKinds : CloseCookies(t, k)
    \/ CloseContent(t)
    \/ Shutdown(t)
    \/ \E k \in SessionKinds : ClientStop(t, k)
    \/ ClientStopEnd(t)
    \/ ShutdownEngine(t)

\* The engine has signalled readiness (every session was built through it).
EngineReady ==
    /\ start_event = TRUE
    /\ wpc = "loop"
    /\ wcur = NoSub
    /\ ready = <<>>
    /\ task = [s \in Subs |-> "none"]
    /\ fut = [s \in Subs |-> [st |-> "none", out |-> NoRes]]
    /\ running_futures = {}
    /\ lock = NoThread
    /\ joins = 0
    /\ playwright = "started"
    /\ inBackend = {}

\* browser.py:87-125  the sessions after their constructors: running, not closed,
\* with a browser; at most one of them created the engine (temp_engine), the
\* others were given it.  Sessions are interchangeable: the creator, if any, is
\* session 1.
SessionInit ==
    /\ cur = [t \in Threads |-> 1]
    /\ temp_engine \in {f \in [Sessions -> BOOLEAN] : \A a \in Sessions : f[a] => a = 1}
    /\ closed = [s \in Sessions |-> FALSE]
    /\ resp \in [Sessions -> BOOLEAN]
    /\ started = [s \in Sessions |-> "full"]
    /\ main_browser = [s \in Sessions |-> TRUE]
    /\ closes = [s \in Sessions |-> 0]
    /\ stoppedBy = {}

InitSession == EngineReady /\ CallerInit /\ ProxyInit /\ SessionInit /\ NoMap /\ NoRest

\* The worker of an engine that runs coroutines which do not suspend.
EngineSession ==
    \/ WorkerCreate
    \/ WorkerStepBegin
    \/ WorkerStepEnd
    \/ WorkerCancel
    \/ WorkerCopy
    \/ WorkerLoopStop
    \/ WorkerFinal1Stop
    \/ WorkerFinalStopped
    \/ WorkerFinal1
    \/ \E finished \in BOOLEAN : WorkerFinal2(finished)

NextSession ==
    \/ EngineSession
    \/ \E t \in Threads : ExecuteSteps(t)
    \/ \E t \in Threads : StopSteps(t)
    \/ \E t \in Threads : SessionSteps(t)
    \/ \E t \in Threads, s \in Sessions : CallClose(t, s)
    \/ \E t \in Threads, s \in Sessions : CallShutdown(t, s)
    \/ \E t \in Threads, s \in Sessions : CallClientStop(t, s)

SpecSession == InitSession /\ [][NextSession]_vars

\* ------------------------------------------ wrappers of a stopped engine
\* Caller threads use wrappers of a running engine whose coroutines do not
\* suspend, and stop that engine.
InitProxyStop == EngineReady /\ CallerInit /\ ProxyInit /\ NoSessions /\ NoMap /\ NoRest

NextProxyStop ==
    \/ EngineSession
    \/ \E t \in Threads : ExecuteSteps(t)
    \/ \E t \in Threads : StopSteps(t)
    \/ \E t \in Threads : CallStop(t)
    \/ \E t \in Threads, m \in MemberKinds : ProxyAccess(t, m)
    \/ \E t \in Threads, k \in SessionKinds : ProxyGetattr(t, k)
    \/ \E t \in Threads : ProxyInvoke(t)
    \/ \E t \in Threads, k \in SessionKinds : ProxyInvoked(t, k)

SpecProxyStop == InitProxyStop /\ [][NextProxyStop]_vars

\* -------------------------------------------------- BrowserSession.start
\* A thread calls session.start() again on a constructed session.
CallStart(t, s) ==
    /\ pc[t] = "idle"
    /\ calls[t] < MaxCalls
    /\ TotalCalls < MaxSessionCalls
    /\ calls' = [calls EXCEPT ![t] = @ + 1]
    /\ call' = [call EXCEPT ![t] = "start"]
    /\ cur' = [cur EXCEPT ![t] = s]
    /\ res' = [res EXCEPT ![t] = NoRes]
    /\ Call(t, "sr_begin", "idle")
    /\ UNCHANGED <<nsub, cursub, epoch, opk, start_event, workerVars, ready, task, fut,
                   running_futures, lock, joins, inBackend, proxyVars, temp_engine, closed,
                   resp, started, main_browser, closes, stoppedBy>>

\* browser.py:132  browser_client(...) builds a client, whose __ainit__ runs
\* create_instance: engine.execute(self._start_context) (engine.py:53, 74).
StartClient(t, k) ==
    /\ pc[t] = "sr_begin"
    /\ EnterExecute(t, k, "sr_client")
    /\ UNCHANGED <<res, call, calls, start_event, workerVars, ready, task, fut,
                   running_futures, lock, joins, inBackend, proxyVars, sessVars>>

\* What start() has set once self.client is assigned.
WithClient(st) == IF st = "full" THEN "full" ELSE "client"

\* browser.py:132-141  an exception of the client's construction leaves start()
\* with self.client as it was; otherwise self.client is the new client, whose
\* main_browser was set by _start_context, and self.client.new_page() runs
\* context.new_page() through the engine (engine.py:60).
StartPage(t, k) ==
    /\ pc[t] = "sr_client"
    /\ IF IsExc(res[t])
       THEN /\ Return(t, res[t])
            /\ UNCHANGED <<nsub, cursub, opk, epoch, started, main_browser>>
       ELSE /\ started' = [started EXCEPT ![cur[t]] = WithClient(@)]
            /\ main_browser' = [main_browser EXCEPT ![cur[t]] = TRUE]
            /\ EnterExecute(t, k, "sr_page")
            /\ UNCHANGED res
    /\ UNCHANGED <<call, calls, start_event, workerVars, ready, task, fut,
                   running_futures, lock, joins, inBackend, proxyVars,
                   cur, temp_engine, closed, resp, closes, stoppedBy>>

\* browser.py:141-143  an exception of new_page leaves start(); otherwise
\* self.page and self.context are set.  Nothing touches self._closed.
StartEnd(t) ==
    /\ pc[t] = "sr_page"
    /\ IF IsExc(res[t])
       THEN Return(t, res[t]) /\ UNCHANGED started
       ELSE /\ Return(t, PlainValue)
            /\ started' = [started EXCEPT ![cur[t]] = "full"]
    /\ UNCHANGED <<call, calls, nsub, cursub, epoch, opk, start_event, workerVars, ready,
                   task, fut, running_futures, lock, joins, inBackend, proxyVars,
                   cur, temp_engine, closed, resp, main_browser, closes, stoppedBy>>

StartSteps(t) ==
    \/ \E k \in SessionKinds : StartClient(t, k)
    \/ \E k \in SessionKinds : StartPage(t, k)
    \/ StartEnd(t)

\* browser.py:87-125  the sessions after their constructors ran, whether start()
\* (line 125) completed or raised: session 1 may have got no client, or a client
\* but no page and context; it may have created the engine.  Session 2 is running
\* on the engine it was given, with or without a response; session 1 was given
\* no response.
LifecycleInit ==
    /\ cur = [t \in Threads |-> 1]
    /\ temp_engine \in {f \in [Sessions -> BOOLEAN] : \A a \in Sessions : f[a] => a = 1}
    /\ closed = [s \in Sessions |-> FALSE]
    /\ resp \in {f \in [Sessions -> BOOLEAN] : ~f[1]}
    /\ started \in {f \in [Sessions -> {"none", "client", "full"}] :
                       \A a \in Sessions : a # 1 => f[a] = "full"}
    /\ main_browser = [s \in Sessions |-> started[s] # "none"]
    /\ closes = [s \in Sessions |-> 0]
    /\ stoppedBy = {}

InitLifecycle == EngineReady /\ CallerInit /\ ProxyInit /\ LifecycleInit /\ NoMap /\ NoRest

NextLifecycle ==
    \/ EngineSession
    \/ \E t \in Threads : ExecuteSteps(t)
    \/ \E t \in Threads : StopSteps(t)
    \/ \E t \in Threads : SessionSteps(t)
    \/ \E t \in Threads : StartSteps(t)
    \/ \E t \in Threads, s \in Sessions : CallClose(t, s)
    \/ \E t \in Threads, s \in Sessions : CallShutdown(t, s)
    \/ \E t \in Threads, s \in Sessions : CallStart(t, s)

SpecLifecycle == InitLifecycle /\ [][NextLifecycle]_vars

\* ---------------------------------------------------------- reqs.map
RECURSIVE Seqs(_, _)
\* The sequences over S of length at most n.
Seqs(S, n) ==
    IF n = 0 THEN {<<>>}
    ELSE Seqs(S, n - 1) \cup {Append(q, x) : q \in {r \in Seqs(S, n - 1) : Len(r) = n - 1}, x \in S}

Min(a, b) == IF a < b THEN a ELSE b

\* reqs.py:352  requests[inc : min(inc + size, len(requests))], as 1-based positions.
requests_range == (inc + 1)..Min(inc + size, Len(requests))

\* reqs.py:343-350  requests = list(requests); all_resps = []; a size of None
\* becomes len(requests); then range(0, len(requests), size) is built, which
\* raises ValueError for a step of zero and is empty for a negative one.
MapBegin ==
    /\ map_pc = "call"
    /\ LET sz == IF size = SizeNone THEN Len(requests) ELSE size IN
        /\ size' = sz
        /\ map_pc' = IF sz = 0 THEN "raised" ELSE "loop"
    /\ UNCHANGED <<requests, inc, all_resps>>
    /\ UNCHANGED <<callerVars, opk, start_event, workerVars, ready, task, fut,
                   running_futures, lock, joins, inBackend, touched, member, wrapVars,
                   sessVars, restVars>>

\* reqs.py:350-380  one batch: the pool either answers every request of the
\* batch, in order, or fails as a whole; then a request with raise_exception
\* makes map raise, and otherwise every request of the batch gets the same
\* FailedResponse.
MapBatch(fails) ==
    /\ map_pc = "loop"
    /\ inc < Len(requests)
    /\ IF fails /\ \E i \in requests_range : requests[i].raise_exception
       THEN /\ map_pc' = "raised"
            /\ UNCHANGED <<inc, all_resps>>
       ELSE /\ all_resps' = all_resps \o
                    [j \in 1..Cardinality(requests_range) |->
                        IF fails THEN FailedResponse ELSE Response(inc + j)]
            /\ inc' = inc + size
            /\ UNCHANGED map_pc
    /\ UNCHANGED <<requests, size>>
    /\ UNCHANGED <<callerVars, opk, start_event, workerVars, ready, task, fut,
                   running_futures, lock, joins, inBackend, touched, member, wrapVars,
                   sessVars, restVars>>

\* reqs.py:350, 381  the range is exhausted: return all_resps
MapReturn ==
    /\ map_pc = "loop"
    /\ inc >= Len(requests)
    /\ map_pc' = "returned"
    /\ UNCHANGED <<requests, size, inc, all_resps>>
    /\ UNCHANGED <<callerVars, opk, start_event, workerVars, ready, task, fut,
                   running_futures, lock, joins, inBackend, touched, member, wrapVars,
                   sessVars, restVars>>

\* hrequests.map(requests, size) is called with up to MaxReqs requests and a
\* batch size of None or 1..MaxSize.
MapInit ==
    /\ requests \in Seqs([raise_exception : BOOLEAN], MaxReqs)
    /\ size \in {SizeNone} \cup (1..MaxSize)
    /\ inc = 0
    /\ all_resps = <<>>
    /\ map_pc = "call"

InitMap == EngineInit /\ CallerInit /\ ProxyInit /\ NoSessions /\ MapInit /\ NoRest

NextMap ==
    \/ MapBegin
    \/ \E fails \in BOOLEAN : MapBatch(fails)
    \/ MapReturn

SpecMap == InitMap /\ [][NextMap]_vars

\* ------------------------------------------- TLSRequest, LazyTLSRequest
\* reqs.py:103-115  _build_session(session): the session the request will use
\* and the value of _close.
build_session(r, given) ==
    IF given THEN [session |-> Given, close |-> FALSE]
    ELSE [session |-> Own(built[r] + 1), close |-> TRUE]

\* (mutant) close_session closes whatever session the request holds.
close_session_any(r) == session[r] # NoSession

\* reqs.py:140-144  close_session: whether it closes and drops the session.
close_session(r) == rq_close[r] /\ session[r] # NoSession

\* reqs.py:64-101 and 153-162  __init__: the fields are set and the session is
\* built; a LazyTLSRequest then starts the thread (or submits to the executor)
\* that runs _send, and has not yet assigned complete.
Construct(r, given, rexc) ==
    /\ ctor[r] = "new"
    /\ LET b == build_session(r, given) IN
        /\ session' = [session EXCEPT ![r] = b.session]
        /\ rq_close' = [rq_close EXCEPT ![r] = b.close]
        /\ built' = [built EXCEPT ![r] = IF given THEN @ ELSE @ + 1]
    /\ raise_exception' = [raise_exception EXCEPT ![r] = rexc]
    /\ response' = [response EXCEPT ![r] = None]
    /\ ctor' = [ctor EXCEPT ![r] = IF lazy[r] THEN "started" ELSE "built"]
    /\ UNCHANGED <<lazy, complete, send_pc, sends, closed_sessions, acc>>
    /\ UNCHANGED <<bridgeVars, pageVars, queueVars>>

\* reqs.py:163  self.complete = False, the last statement of
\* LazyTLSRequest.__init__, after the background send was started.
ConstructEnd(r) ==
    /\ lazy[r]
    /\ ctor[r] = "started"
    /\ complete' = [complete EXCEPT ![r] = "False"]
    /\ ctor' = [ctor EXCEPT ![r] = "built"]
    /\ UNCHANGED <<lazy, session, rq_close, raise_exception, response, send_pc, sends,
                   built, closed_sessions, acc>>
    /\ UNCHANGED <<bridgeVars, pageVars, queueVars>>

\* reqs.py:123-128  send() begins: a session that was dropped is rebuilt.  The
\* background thread of a lazy request calls send() once, as soon as it was
\* started; the owner of a plain request calls it when the request is built.
SendBegin(r) ==
    /\ sends[r] < MaxSends
    /\ IF lazy[r]
       THEN ctor[r] # "new" /\ send_pc[r] = "idle"
       ELSE ctor[r] = "built" /\ send_pc[r] \in {"idle", "returned", "raised"}
    /\ IF session[r] = NoSession
       THEN LET b == build_session(r, FALSE) IN
            /\ session' = [session EXCEPT ![r] = b.session]
            /\ rq_close' = [rq_close EXCEPT ![r] = b.close]
            /\ built' = [built EXCEPT ![r] = @ + 1]
       ELSE UNCHANGED <<session, rq_close, built>>
    /\ send_pc' = [send_pc EXCEPT ![r] = "request"]
    /\ sends' = [sends EXCEPT ![r] = @ + 1]
    /\ UNCHANGED <<lazy, ctor, raise_exception, response, complete, closed_sessions, acc>>
    /\ UNCHANGED <<bridgeVars, pageVars, queueVars>>

\* reqs.py:129-138  session.request returns a Response or raises; the exception
\* is re-raised when raise_exception is set and kept otherwise; the finally
\* clause calls close_session on both paths.
SendEnd(r, ok) ==
    /\ send_pc[r] = "request"
    /\ response' = [response EXCEPT ![r] = IF ok THEN "Response" ELSE @]
    /\ send_pc' = [send_pc EXCEPT ![r] =
                      IF ~ok /\ raise_exception[r] THEN "raised" ELSE "returned"]
    /\ IF close_session(r)
       THEN /\ closed_sessions' = [closed_sessions EXCEPT ![r] = @ \cup {session[r]}]
            /\ session' = [session EXCEPT ![r] = NoSession]
       ELSE UNCHANGED <<closed_sessions, session>>
    /\ UNCHANGED <<lazy, ctor, rq_close, raise_exception, complete, sends, built, acc>>
    /\ UNCHANGED <<bridgeVars, pageVars, queueVars>>

\* reqs.py:168-170  _send: after send() returned, self.complete = True and the
\* background thread ends.  (When send() raised, the thread ended there.)
SendComplete(r) ==
    /\ lazy[r]
    /\ send_pc[r] = "returned"
    /\ complete' = [complete EXCEPT ![r] = "True"]
    /\ send_pc' = [send_pc EXCEPT ![r] = "done"]
    /\ UNCHANGED <<lazy, ctor, session, rq_close, raise_exception, response, sends,
                   built, closed_sessions, acc>>
    /\ UNCHANGED <<bridgeVars, pageVars, queueVars>>

\* The background thread of a lazy request has ended.
Joined(r) == send_pc[r] \in {"done", "raised"}

\* reqs.py:184  getattr(self.response, name): an attribute of the Response, or
\* AttributeError when response is still None.
response_attr(r) == IF response[r] = None THEN "AttributeError" ELSE "attribute"

\* reqs.py:180-183  __getattr__ on a constructed lazy request: join() when
\* complete is not set.
AccessBegin(r) ==
    /\ lazy[r]
    /\ ctor[r] = "built"
    /\ acc[r] = "idle"
    /\ acc' = [acc EXCEPT ![r] = IF complete[r] = "True" THEN response_attr(r) ELSE "join"]
    /\ UNCHANGED <<lazy, ctor, session, rq_close, raise_exception, response, complete,
                   send_pc, sends, built, closed_sessions>>
    /\ UNCHANGED <<bridgeVars, pageVars, queueVars>>

\* reqs.py:172-178, 184  join() returns once the thread (or future) has ended;
\* then the attribute of the response is returned.
AccessJoin(r) ==
    /\ acc[r] = "join"
    /\ Joined(r)
    /\ acc' = [acc EXCEPT ![r] = response_attr(r)]
    /\ UNCHANGED <<lazy, ctor, session, rq_close, raise_exception, response, complete,
                   send_pc, sends, built, closed_sessions>>
    /\ UNCHANGED <<bridgeVars, pageVars, queueVars>>

\* Each request is a TLSRequest or a LazyTLSRequest about to be constructed.
RequestInit ==
    /\ lazy \in [Requests -> BOOLEAN]
    /\ ctor = [r \in Requests |-> "new"]
    /\ session = [r \in Requests |-> NoSession]
    /\ rq_close = [r \in Requests |-> FALSE]
    /\ raise_exception = [r \in Requests |-> FALSE]
    /\ response = [r \in Requests |-> None]
    /\ complete = [r \in Requests |-> "unset"]
    /\ send_pc = [r \in Requests |-> "idle"]
    /\ sends = [r \in Requests |-> 0]
    /\ built = [r \in Requests |-> 0]
    /\ closed_sessions = [r \in Requests |-> {}]
    /\ acc = [r \in Requests |-> "idle"]

InitRequest ==
    /\ EngineInit /\ CallerInit /\ ProxyInit /\ NoSessions /\ NoMap
    /\ RequestInit /\ NoPages /\ NoQueue

NextRequest ==
    \/ \E r \in Requests, given \in BOOLEAN, rexc \in BOOLEAN : Construct(r, given, rexc)
    \/ \E r \in Requests : ConstructEnd(r)
    \/ \E r \in Requests : SendBegin(r)
    \/ \E r \in Requests, ok \in BOOLEAN : SendEnd(r, ok)
    \/ \E r \in Requests : SendComplete(r)
    \/ \E r \in Requests : AccessBegin(r)
    \/ \E r \in Requests : AccessJoin(r)

SpecRequest == InitRequest /\ [][NextRequest]_vars

\* ----------------------- BrowserObjectWrapper: what a wrapper is built around
\* engine.py:172-175  BrowserObjectWrapper(obj, engine) stores obj as it is given.
WrapObject(v) == Layered(v.wraps + 1, v.shape)

\* engine.py:223-227  _wrap_result(result).  hasattr on a wrapper goes through
\* __getattribute__ to the wrapped object (line 187), so a wrapper has __dict__
\* and close exactly when the raw object inside has them.
WrapResultOf(v) == IF HasDict(v.shape) /\ HasClose(v.shape) THEN WrapObject(v) ELSE v

RECURSIVE MethodResult(_, _)
\* engine.py:189-205  wrapper.name(*args) for a callable member a, through n
\* layers of wrappers.  The innermost wrapper calls the raw member (line 193),
\* hands a coroutine to execute (200) and passes the result through
\* _wrap_result; for an outer wrapper getattr(_obj, name) is the inner
\* wrapper's `method`, whose result is never a coroutine and goes through
\* _wrap_result again (203).
MethodResult(n, a) ==
    IF n = 1
    THEN Use(WrapResultOf(Layered(0, a.rshape)), IF a.async THEN 1 ELSE 0, a)
    ELSE LET r == MethodResult(n - 1, a) IN Use(WrapResultOf(r.out), r.dispatches, a)

RECURSIVE AttributeResult(_, _)
\* engine.py:207-221  wrapper.name for a member a that is not callable, through n
\* layers of wrappers: the innermost wrapper awaits a coroutine through execute
\* and wraps a value with attributes; an outer wrapper finds the inner
\* wrapper's answer and wraps it again when it has attributes (215-217).
AttributeResult(n, a) ==
    IF n = 1
    THEN IF a.coroutine THEN Use(WrapResultOf(Layered(0, a.rshape)), 1, a)
         ELSE IF HasDict(a.shape) THEN Use(WrapObject(Layered(0, a.shape)), 0, a)
         ELSE Use(Layered(0, a.shape), 0, a)
    ELSE LET r == AttributeResult(n - 1, a) IN
         IF HasDict(r.out.shape) THEN Use(WrapObject(r.out), r.dispatches, a) ELSE r

\* context.new_page: an asynchronous method of the browser context that
\* returns a page, an object with attributes and a close method.
new_page_attr ==
    [exists |-> TRUE, callable |-> TRUE, coroutine |-> FALSE, shape |-> "plain",
     async |-> TRUE, rshape |-> "handle"]

\* engine.py:53-54  context_ptr = self.create_instance(...), the raw context
\* returned by engine.execute; self.context = BrowserObjectWrapper(context_ptr, engine)
AInit ==
    /\ context = NoObject
    /\ context' = WrapObject(Layered(0, "handle"))
    /\ UNCHANGED <<page, used>>
    /\ UNCHANGED <<bridgeVars, reqVars, queueVars>>

\* engine.py:56-61  new_page: page_ptr = self.context.new_page(), a call through
\* the context wrapper; return BrowserObjectWrapper(page_ptr, self.engine)
NewPage(t) ==
    /\ context # NoObject
    /\ page[t] = NoObject
    /\ LET page_ptr == MethodResult(context.wraps, new_page_attr) IN
        /\ page' = [page EXCEPT ![t] = WrapObject(page_ptr.out)]
        /\ used' = [used EXCEPT ![t] = page_ptr]
    /\ UNCHANGED context
    /\ UNCHANGED <<bridgeVars, reqVars, queueVars>>

\* The thread calls a method of its page, or reads one of its members.
PageUse(t, a) ==
    /\ page[t] # NoObject
    /\ a.exists
    /\ used' = [used EXCEPT ![t] =
                   IF a.callable THEN MethodResult(page[t].wraps, a)
                   ELSE AttributeResult(page[t].wraps, a)]
    /\ UNCHANGED <<context, page>>
    /\ UNCHANGED <<bridgeVars, reqVars, queueVars>>

\* The thread goes on with the wrapper it got.
PageDescend(t) ==
    /\ used[t].out.wraps > 0
    /\ used[t].out # page[t]
    /\ page' = [page EXCEPT ![t] = used[t].out]
    /\ UNCHANGED <<context, used>>
    /\ UNCHANGED <<bridgeVars, reqVars, queueVars>>

InitPage == EngineInit /\ CallerInit /\ ProxyInit /\ NoSessions /\ NoMap /\ NoRest

NextPage ==
    \/ AInit
    \/ \E t \in Threads : NewPage(t)
    \/ \E t \in Threads, a \in Attrs : PageUse(t, a)
    \/ \E t \in Threads : PageDescend(t)

SpecPage == InitPage /\ [][NextPage]_vars

\* ------------------------- the queue-based BrowserSession (hrequests/browser.py)
\* What main puts into _out for a call: the value it returned, or the exception
\* made of what it raised (BrowserTimeoutException, BrowserException).
Out(c) == [kind |-> IF c.ends = "value" THEN "value" ELSE "exception", of |-> c.id]

\* browser.py:177-192, 171  session.name(...): __getattr__ raises when _closed is
\* set; otherwise _call_wrapper runs: self._in.put(partial(func, *args, **kwargs))
CallWrapperPut(t, raises) ==
    /\ qpc[t] = "idle"
    /\ ~q_closed
    /\ qn[t] < MaxCalls
    /\ qn' = [qn EXCEPT ![t] = @ + 1]
    /\ q_in' = Append(q_in, QueuedCall(t, qn[t] + 1, raises))
    /\ qpc' = [qpc EXCEPT ![t] = "get"]
    /\ qgot' = [qgot EXCEPT ![t] = NoOut]
    /\ UNCHANGED <<q_out, main_pc, main_cur, q_closed>>
    /\ UNCHANGED <<bridgeVars, reqVars, pageVars>>

\* browser.py:172-175  out = self._out.get(), blocking until _out holds an item;
\* an exception is raised, anything else returned.
CallWrapperGet(t) ==
    /\ qpc[t] = "get"
    /\ q_out # <<>>
    /\ qgot' = [qgot EXCEPT ![t] = Head(q_out)]
    /\ q_out' = Tail(q_out)
    /\ qpc' = [qpc EXCEPT ![t] = "idle"]
    /\ UNCHANGED <<q_in, qn, main_pc, main_cur, q_closed>>
    /\ UNCHANGED <<bridgeVars, reqVars, pageVars>>

\* browser.py:136-140  main: call = self._in.get(), then out = await call() begins
MainGet ==
    /\ main_pc = "get"
    /\ q_in # <<>>
    /\ main_cur' = Head(q_in)
    /\ q_in' = Tail(q_in)
    /\ main_pc' = "call"
    /\ UNCHANGED <<q_out, qpc, qn, qgot, q_closed>>
    /\ UNCHANGED <<bridgeVars, reqVars, pageVars>>

\* browser.py:140-155  the call returns or raises and main puts the value or the
\* exception into _out, then loops; a Playwright error marks the session closed.
MainPut ==
    /\ main_pc = "call"
    /\ q_out' = Append(q_out, Out(main_cur))
    /\ q_closed' = (q_closed \/ main_cur.ends = "PlaywrightError")
    /\ main_cur' = NoCall
    /\ main_pc' = "get"
    /\ UNCHANGED <<q_in, qpc, qn, qgot>>
    /\ UNCHANGED <<bridgeVars, reqVars, pageVars>>

\* browser.py:82-86, 111-113  the session after its constructor: both queues
\* empty, the thread running main started (NoQueue).
InitQueue == EngineInit /\ CallerInit /\ ProxyInit /\ NoSessions /\ NoMap /\ NoRest

NextQueue ==
    \/ \E t \in Threads, raises \in CallEnds : CallWrapperPut(t, raises)
    \/ \E t \in Threads : CallWrapperGet(t)
    \/ MainGet
    \/ MainPut

SpecQueue == InitQueue /\ [][NextQueue]_vars

\* Fairness: the worker thread and every caller thread inside execute keep
\* running.  Nothing obliges a caller to make a call, stop() to be called, or the
\* backend to deliver the event a suspended coroutine waits for.
WorkerRuns ==
    \/ WorkerStart
    \/ WorkerSetReady
    \/ WorkerCreate
    \/ WorkerStepBegin
    \/ WorkerStepEnd
    \/ WorkerStepCancelled
    \/ WorkerCancel
    \/ WorkerCopy

FairSpec ==
    /\ Init /\ [][Next]_vars
    /\ WF_vars(WorkerRuns)
    /\ \A t \in Threads : WF_vars(ExecuteSteps(t))

\* ------------------------------------- a backend that fails to start
\* engine.py:140  __start_playwright (106-114) raises: run_until_complete lets
\* the exception through, __thread_worker ends with it and line 141,
\* start_event.set(), is never reached.
WorkerStartFail ==
    /\ wpc = "start"
    /\ wpc' = "dead"
    /\ UNCHANGED <<callerVars, opk, start_event, wcur, ready, playwright, task, fut,
                   running_futures, lock, joins, inBackend, proxyVars, sessVars>>

\* Callers use an engine that nobody stops and whose backend may fail to start.
NextStartFail ==
    \/ EngineServe
    \/ WorkerStartFail
    \/ \E t \in Threads : ExecuteSteps(t)
    \/ \E t \in Threads, k \in OpKinds : CallExecute(t, k)

\* The worker thread runs until it ends, and callers inside execute keep running.
SpecStartFail ==
    /\ Init /\ [][NextStartFail]_vars
    /\ WF_vars(WorkerRuns \/ WorkerStartFail)
    /\ \A t \in Threads : WF_vars(ExecuteSteps(t))

\* ================================================================ claims
\* A caller inside execute that cannot move: waiting for a readiness signal that
\* is not set, or for a future that is still pending.
Blocked(t) ==
    \/ pc[t] = "ex_wait" /\ ~start_event
    \/ pc[t] = "ex_result" /\ fut[cursub[t]].st = "PENDING"

StopStarted == Now # "pre"

\* C1: an execute call made after stop() has returned never blocks on the
\* completion of its submission and fails with an EngineStopped error.  (Stated
\* for an engine that had signalled readiness before it was stopped; on an engine
\* stopped during start-up the call blocks on the readiness signal instead.)
C1_ExecuteAfterStopFailsFast ==
    \A t \in Threads :
        (start_event /\ epoch[t] = "post" /\ cursub[t] # NoSub
            /\ pc[t] \in ExecLabels \cup {"idle"}) =>
            /\ ~Blocked(t)
            /\ pc[t] = "idle" => res[t].kind = "engine_stopped"

\* C2: once stop() has returned, no caller that was inside execute when stop() was
\* called is left blocked: each of them has been released (with Cancelled).
\* (Stated for an engine that had signalled readiness.)
C2_BlockedCallersCancelled ==
    (joins > 0 /\ start_event) => \A t \in Threads : epoch[t] = "pre" => ~Blocked(t)

C6_NotSerialized ==
    \A t \in Threads :
        (pc[t] \in ExecLabels /\ opk[cursub[t]] # "slow") ~> (pc[t] = "idle" \/ StopStarted)

\* C6 witness: the worker runs the coroutine of one caller while the coroutine of
\* another caller is suspended and that caller is still waiting.
C6_Witness ==
    \E t, u \in Threads :
        /\ t # u
        /\ pc[u] = "ex_result" /\ task[cursub[u]] = "suspended"
        /\ pc[t] = "ex_result" /\ wcur = cursub[t] /\ ~StopStarted

\* C7: however often and from however many threads stop() is called, the worker
\* thread is joined exactly once.
C7_StopIdempotent == joins <= 1

\* C3: no caller thread ever reads a member of a wrapped handle or calls one of
\* its callables itself: every such access happens on the worker thread.
C3_HandleOnlyOnWorker == touched = {}

\* C4: at most one thread at a time executes code of the backend.
C4_MutualExclusion == Cardinality(inBackend) <= 1

\* No thread is inside a call.
Quiet == \A t \in Threads : pc[t] = "idle"

\* C8: when close() or shutdown() of a session that created its engine ends with
\* an exception (the harvest or the browser close failed), that engine has still
\* been stopped by the session.
C8_TeardownStopsEngine ==
    \A t \in Threads :
        (pc[t] = "idle" /\ call[t] \in {"close", "shutdown"} /\ IsExc(res[t])
            /\ temp_engine[cur[t]]) => cur[t] \in stoppedBy

\* C9: over any sequence of client.stop(), shutdown() and close() calls on one
\* session, main_browser.close is handed to the engine at most once.  (Stated
\* for calls made one after the other by a single thread.)
C9_CloseDispatchedOnce ==
    (\E t \in Threads : \A u \in Threads \ {t} : calls[u] = 0) =>
        \A s \in Sessions : closes[s] <= 1

\* C10: only a session that created the engine ever stops it, and once a closed
\* session that created its engine is at rest, it has stopped that engine.
C10_EngineOwnership ==
    /\ \A s \in stoppedBy : temp_engine[s]
    /\ \A s \in Sessions : (Quiet /\ closed[s] /\ temp_engine[s]) => s \in stoppedBy

\* The lifecycle state of a session: Stopped once _closed is set, Running while
\* start() has completed, Created before.
LifecycleState(s) ==
    IF closed[s] THEN "Stopped" ELSE IF started[s] = "full" THEN "Running" ELSE "Created"

\* C11: when a stop of a session (close() or shutdown()) has returned, the
\* session is Stopped, whether it was Created or Running when the call was made.
C11_StopLeadsToStopped ==
    \A t \in Threads :
        (pc[t] = "idle" /\ call[t] \in {"close", "shutdown"}) =>
            LifecycleState(cur[t]) = "Stopped"

\* C12: a method call made through a wrapper after engine.stop() has returned
\* never blocks and never returns a value: it fails with an EngineStopped error.
C12_ProxyAfterStopFails ==
    \A t \in Threads :
        (call[t] = "proxy" /\ member[t] \in {"sync_method", "async_method"}
            /\ epoch[t] = "post") =>
            /\ ~Blocked(t)
            /\ pc[t] = "idle" => res[t].kind = "engine_stopped"

\* The value an operation of got-record g ended with, when g is the outcome of an
\* operation: a called method or an awaited property.
IsOperation(g) == (g.attr.callable /\ g.step = "call") \/ (g.attr.coroutine /\ g.step = "getattr")

MemberKind(a) ==
    IF a.callable THEN "callable"
    ELSE IF a.coroutine THEN "awaitable"
    ELSE IF HasDict(a.shape) THEN "nested"
    ELSE "plain"

\* C14: the access of an existing member through a wrapper has the outcome fixed
\* by the member's kind: a plain value is returned as it is and nothing is handed
\* to an engine; a callable gives the synchronous method wrapper and nothing is
\* handed to an engine; an awaitable is run by the wrapper's engine and its
\* result is returned wrapped by the result rule; a nested object gives a new
\* wrapper bound to the same engine and nothing is handed to an engine.
C14_AccessByKind ==
    \A t \in Threads :
        LET g == got[t] IN
        (g.step = "getattr" /\ g.attr.exists) =>
            /\ MemberKind(g.attr) = "plain" =>
                   g.out = RawValue(g.attr.shape, g.from.depth + 1) /\ g.via = NoEngine
            /\ MemberKind(g.attr) = "callable" =>
                   g.out = MethodWrapper(g.from) /\ g.via = NoEngine
            /\ MemberKind(g.attr) = "awaitable" =>
                   /\ g.via = g.from.engine
                   /\ g.out = IF g.attr.rshape = "handle"
                              THEN BrowserObjectWrapper("handle", g.from.engine, g.from.depth + 1)
                              ELSE RawValue(g.attr.rshape, g.from.depth + 1)
            /\ MemberKind(g.attr) = "nested" =>
                   /\ g.out = BrowserObjectWrapper(g.attr.shape, g.from.engine, g.from.depth + 1)
                   /\ g.via = NoEngine

\* C14 witness: one thread got a wrapper for a nested object without a close
\* method, another had an awaitable member run by the second engine and got its
\* plain result.
C14_Witness ==
    \E t, u \in Threads :
        /\ got[t].step = "getattr" /\ MemberKind(got[t].attr) = "nested"
        /\ got[t].attr.shape = "object" /\ got[t].out.kind = "wrapper"
        /\ got[u].step = "getattr" /\ MemberKind(got[u].attr) = "awaitable"
        /\ got[u].via = NumEngines /\ got[u].out.kind = "value"

\* C15: the access through a wrapper of a name that the handle does not have
\* raises AttributeError at the access: the thread never enters execute for it
\* and never gets a wrapper or a value back.
C15_MissingMemberRaises ==
    \A t \in Threads :
        (call[t] = "proxy" /\ member[t] = "missing") =>
            /\ pc[t] \in {"px_getattr", "idle"}
            /\ pc[t] = "idle" => res[t].kind = "attribute_error"

\* C15 witness: a thread got AttributeError for a missing name while another
\* thread's coroutine was with the engine.
C15_Witness ==
    \E t, u \in Threads :
        /\ call[t] = "proxy" /\ member[t] = "missing"
        /\ pc[t] = "idle" /\ res[t].kind = "attribute_error"
        /\ pc[u] = "ex_result"

\* C16: readiness is signalled only once the backend connection has been
\* started, and before the worker runs the loop; a caller that entered execute
\* before the signal has not got past the wait; so nothing has been submitted to
\* the loop, and no task exists, unless the backend was started first.
C16_ReadinessOrdering ==
    /\ start_event => playwright # "none" /\ wpc \notin {"start", "set_ready"}
    /\ wpc = "loop" => start_event
    /\ \A t \in Threads :
           pc[t] \in {"ex_submit", "ex_register", "ex_result", "ex_remove"} => start_event
    /\ \A s \in Subs : (fut[s].st # "none" \/ task[s] # "none") => playwright # "none"
    /\ \A i \in 1..Len(ready) : ready[i].k = "create" => playwright # "none"

\* C16 witness: a caller is held at the wait of execute while the worker has
\* started the backend and has not signalled readiness yet.
C16_Witness ==
    \E t \in Threads :
        pc[t] = "ex_wait" /\ ~start_event /\ playwright = "started" /\ wpc = "set_ready"

\* C17: when a call of stop() has returned, the worker thread has ended and the
\* backend connection has been shut down by the worker.  (Stated for an engine
\* that had signalled readiness, so that there is a connection to shut down.)
C17_StopShutsBackendDown ==
    \A t \in Threads :
        (pc[t] = "idle" /\ call[t] = "stop" /\ res[t].kind = "stopped" /\ start_event) =>
            wpc = "dead" /\ playwright = "stopped"

\* C18: an execute call that overlaps a stop() (made before stop() was called or
\* while it ran) is not left waiting once the worker thread has ended: not for
\* the readiness signal, and not for a submission made to the stopped loop.
C18_OverlapNeverHangs ==
    \A t \in Threads :
        (wpc = "dead" /\ epoch[t] \in {"pre", "mid"} /\ pc[t] \in ExecLabels) => ~Blocked(t)

\* The worker has begun to run the coroutine of submission s.
Begun(s) == task[s] \notin {"none", "ready"}

\* C19: when the worker has begun to run an operation of a thread, the execute
\* call of every earlier operation of that thread has returned: its future is
\* done, it has left running_futures and it is not the thread's current call.
C19_PerCallerOrder ==
    \A b \in Subs : Begun(b) =>
        \A a \in Subs : (a[1] = b[1] /\ a[2] < b[2]) =>
            /\ fut[a].st \in {"FINISHED", "CANCELLED"}
            /\ a \notin running_futures
            /\ cursub[a[1]] # a

\* C19 witness: the worker runs the second operation of a thread whose first
\* operation suspended on the worker before it finished and returned.
C19_Witness ==
    \E t \in Threads :
        /\ wcur = <<t, 2>> /\ pc[t] = "ex_result"
        /\ opk[<<t, 1>>] = "slow" /\ fut[<<t, 1>>].st = "FINISHED"

\* C20: a call of map on requests that do not raise their exceptions returns,
\* for every list (the empty one included) and every batch size, a list with one
\* entry per request, in request order: the request's Response or a
\* FailedResponse.
C20_MapOnePerRequest ==
    (map_pc \in {"returned", "raised"} /\ \A i \in 1..Len(requests) : ~requests[i].raise_exception) =>
        /\ map_pc = "returned"
        /\ Len(all_resps) = Len(requests)
        /\ \A i \in 1..Len(requests) : all_resps[i] \in {Response(i), FailedResponse}

\* C21: for a LazyTLSRequest, in every interleaving of the constructor with the
\* background send, once the send has finished complete is True and stays True;
\* and an attribute access returns only after the background send has ended,
\* with the attribute of the response.
C21_LazyComplete ==
    \A r \in Requests :
        lazy[r] =>
            /\ send_pc[r] = "done" => complete[r] = "True"
            /\ acc[r] \in {"attribute", "AttributeError"} => Joined(r)
            /\ acc[r] = "attribute" => response[r] = "Response"

\* C24: after send() has returned or raised, a session the request created
\* itself has been closed and dropped, and a session supplied by the caller is
\* still held and was never closed, on the success and on the failure path.
C24_AfterSend ==
    \A r \in Requests :
        (sends[r] > 0 /\ send_pc[r] # "request") =>
            IF rq_close[r]
            THEN /\ session[r] = NoSession
                 /\ closed_sessions[r] = {Own(n) : n \in 1..built[r]}
            ELSE /\ session[r] = Given
                 /\ closed_sessions[r] = {}

\* C24: a send() that finds the session dropped builds a session that the
\* request never held before.
C24_FreshSession ==
    \A r \in Requests :
        (send_pc[r] # "request" /\ send_pc'[r] = "request" /\ session[r] = NoSession) =>
            /\ session'[r] = Own(built'[r])
            /\ session'[r] \notin closed_sessions[r]

\* C24: TLSRequest session ownership, on every path and for every later send().
C24_SessionOwnership == []C24_AfterSend /\ [][C24_FreshSession]_vars

\* A request that created its sessions itself has sent twice, once failing, and
\* a request given a session has sent and failed.
C24_Witness ==
    /\ \E r \in Requests :
        /\ rq_close[r] /\ sends[r] = 2 /\ built[r] = 2 /\ send_pc[r] = "raised"
        /\ response[r] = "Response"
    /\ \E r \in Requests :
        /\ ~rq_close[r] /\ sends[r] = 2 /\ send_pc[r] = "raised" /\ session[r] = Given

\* The submissions whose execute call has registered its future and has not
\* yet returned.
Registered == {cursub[t] : t \in {u \in Threads : pc[u] \in {"ex_result", "ex_remove"}}}

\* C22: in every reachable state running_futures contains exactly the
\* submissions whose execute call has registered and not yet returned, whatever
\* the outcome of the calls that returned; so it is empty whenever no execute
\* call is in progress.
C22_PendingExact ==
    /\ running_futures = Registered
    /\ (\A t \in Threads : pc[t] \notin ExecLabels) => running_futures = {}

\* An execute call has returned Cancelled while stop() is still running, and
\* nothing is left registered.
C22_Witness ==
    /\ \E t \in Threads : pc[t] \notin ExecLabels /\ res[t] = CancelledError
    /\ \E t \in Threads : pc[t] \in StopLabels
    /\ running_futures = {}

\* C23: running_futures_lock is held only for an insert or a remove: the
\* thread holding it performs no cancellation and no blocking wait, so no thread
\* waits for an operation to complete, or for the worker to end, while holding it.
C23_LockOnlyForInsertRemove ==
    \A t \in Threads :
        lock = t =>
            /\ pc[t] = "st_cancel" => {s \in running_futures : fut[s].st = "PENDING"} = {}
            /\ pc[t] \notin {"ex_wait", "ex_result", "st_join"}

\* C25: the object held inside a BrowserObjectWrapper is always a raw backend
\* handle and never another wrapper, for the wrappers made by result wrapping,
\* by nested-attribute wrapping and by new_page; and one proxied call hands
\* exactly one coroutine to the engine.
C25_WrapsRawHandle ==
    /\ context.wraps <= 1
    /\ \A t \in Threads :
        /\ page[t].wraps <= 1
        /\ used[t].out.wraps <= 1
        /\ (used[t].attr.async \/ used[t].attr.coroutine) => used[t].dispatches = 1

\* C26: also when the worker thread ends without signalling readiness, no
\* caller of execute stays blocked on the readiness signal: every caller that
\* waits for it is eventually released.
C26_StartFailureReleases ==
    \A t \in Threads : (pc[t] = "ex_wait") ~> (pc[t] # "ex_wait")

\* C27: when the construction of a session that created its own engine failed
\* (start() did not complete), the close() made by the session's finalizer has
\* stopped that engine once it is over.
C27_FailedConstructionStopsEngine ==
    \A t \in Threads :
        (pc[t] = "idle" /\ call[t] = "close" /\ temp_engine[cur[t]]
            /\ started[cur[t]] # "full") => cur[t] \in stoppedBy

\* C28: when the only calls made are close() calls by different threads on the
\* same session, main_browser.close is handed to the engine at most once and the
\* engine is stopped at most once.
C28_ConcurrentCloseOnce ==
    \A s \in Sessions :
        (\A t \in Threads : calls[t] <= 1 /\ (calls[t] = 1 => (call[t] = "close" /\ cur[t] = s)))
            => (closes[s] <= 1 /\ joins <= 1)

\* An execute call that has returned did so with the result of its own
\* operation, with its error, or with Cancelled, and with Cancelled exactly when
\* its future was cancelled.
C29_OneOutcome ==
    \A t \in Threads :
        (pc[t] = "idle" /\ call[t] = "execute") =>
            /\ res[t] \in {Result(cursub[t]), Failure(cursub[t]), CancelledError}
            /\ res[t] = CancelledError <=> fut[cursub[t]].st = "CANCELLED"

\* The future of an operation that has already completed on the worker is not
\* cancelled any more.
C29_CompletedNotCancelled ==
    \A s \in Subs :
        (task[s] = "done" /\ fut[s].st = "PENDING") => fut'[s].st # "CANCELLED"

\* C29: every execute call that returns does so with exactly one outcome, and
\* when stop() races with the completion of an operation, an operation that had
\* already completed is delivered with its real outcome, never as Cancelled.
C29_RealOutcomeDelivered == []C29_OneOutcome /\ [][C29_CompletedNotCancelled]_vars

\* C30: in the queue-based BrowserSession, when threads call session methods
\* concurrently, what a caller's _call_wrapper takes from _out is the value or
\* the exception of its own call, never another caller's.
C30_OwnResponse ==
    \A t \in Threads : qgot[t] # NoOut => qgot[t].of = <<t, qn[t]>>

====
